---------------------------- MODULE Spec2Model ----------------------------
(***************************************************************************)
(* A model of kauma: GF(2^128) arithmetic, polynomials over GF(2^128) and  *)
(* their factorisation, AES-GCM and the nonce-reuse attack on it, the CBC  *)
(* padding-oracle attack, batch-GCD factoring of RSA moduli, the integer   *)
(* calculator and the loop over the test cases of a batch.                 *)
(*                                                                         *)
(* Representation of Python values                                         *)
(*   - a non-negative int used as a bit vector (gf128.py) is the set of    *)
(*     the positions of its 1 bits: 0 is {}, 1 is {0}, 1 << 128 is {128}.  *)
(*     x ^ y is the symmetric difference, x << n adds n to every position, *)
(*     x & ((1 << 128) - 1) keeps the positions below 128.  The field has  *)
(*     its full width: nothing is scaled down.                             *)
(*   - bytes are sequences of numbers in 0..255.                           *)
(*   - a GF128 object is a record [value, poly], a GFPoly object a record  *)
(*     [coeffs, poly] with coeffs a sequence, constant term first.         *)
(*   - a raised exception is the value Raise.                              *)
(*   - a loop of f is f_while(state, ..., fuel) or f_for(state, ..., fuel): *)
(*     the body applied to the state while the condition holds.  fuel is   *)
(*     an upper bound on the number of iterations, computed from the       *)
(*     loop's own termination measure; it only shapes the evaluation       *)
(*     (halving keeps the evaluation stack shallow).                       *)
(***************************************************************************)
EXTENDS Integers, FiniteSets, Sequences, TLC

VARIABLES
  gf,    \* the field calculator: arguments, action and reply
  pl,    \* the polynomial calculator: arguments, action and reply
  fz,    \* a factorisation: its argument, its position and its reply
  gc,    \* AES-GCM: the block cipher, the arguments and the reply
  po,    \* the padding-oracle attack: the server, the client and the reply
  rs,    \* the RSA factoring: the moduli and the reply
  cl,    \* the integer calculator: arguments and reply
  km     \* the main loop: the test cases and the lines printed

vars == <<gf, pl, fz, gc, po, rs, cl, km>>

\* The part of the program a specification does not exercise stays idle.
Idle == [op |-> "idle"]
gf_others == <<pl, fz, gc, po, rs, cl, km>>
pl_others == <<gf, fz, gc, po, rs, cl, km>>
fz_others == <<gf, pl, gc, po, rs, cl, km>>
gc_others == <<gf, pl, fz, po, rs, cl, km>>
po_others == <<gf, pl, fz, gc, rs, cl, km>>
rs_others == <<gf, pl, fz, gc, po, cl, km>>
cl_others == <<gf, pl, fz, gc, po, rs, km>>
km_others == <<gf, pl, fz, gc, po, rs, cl>>

Raise == "raise"

-----------------------------------------------------------------------------
(* Python ints as bit vectors *)

FieldBits == 128

XOR(a, b) == (a \ b) \cup (b \ a)
Shl(a, n) == {i + n : i \in a}
Shr(a, n) == {i - n : i \in a \ (0 .. n - 1)}
Mask128(a) == a \cap (0 .. FieldBits - 1)

\* The highest position of x in lo..hi, x having one there.
RECURSIVE MaxIn(_, _, _)
MaxIn(x, lo, hi) ==
  IF lo = hi THEN lo
  ELSE LET mid == (lo + hi) \div 2
       IN IF x \cap (mid + 1 .. hi) # {} THEN MaxIn(x, mid + 1, hi) ELSE MaxIn(x, lo, mid)

\* A position above every position of x: 2*128 - 1, doubled until it is.
RECURSIVE TopBound(_, _)
TopBound(x, hi) == IF x \ (0 .. hi) = {} THEN hi ELSE TopBound(x, 2 * hi + 1)

\* int.bit_length()
bit_length(x) == IF x = {} THEN 0 ELSE MaxIn(x, 0, TopBound(x, 2 * FieldBits - 1)) + 1

\* bit_length of an x that has no position above hi: the highest position
\* of x, looked for just below hi first.
bit_length_from(x, hi) ==
  IF x = {} THEN 0
  ELSE IF hi \in x THEN hi + 1
  ELSE IF hi - 1 \in x THEN hi
  ELSE IF hi - 2 \in x THEN hi - 1
  ELSE MaxIn(x, 0, hi) + 1

P1 == {128, 7, 2, 1, 0}
P2 == {128, 98, 69, 33, 0}
POLYS == [p1 |-> P1, p2 |-> P2]
PolyTags == {"p1", "p2"}

\* result ^= a for every 1 bit of b, a shifted left and b right each round.
\* After i rounds a is a << i and b is b >> i, so that b & 1 is bit i of b
\* and the loop ends with i = bit_length(b).
carryless_mul_body(st, a, b) ==
  [result |-> IF st.i \in b THEN XOR(st.result, Shl(a, st.i)) ELSE st.result,
   i |-> st.i + 1]

RECURSIVE carryless_mul_while(_, _, _, _, _)
carryless_mul_while(st, a, b, rounds, fuel) ==
  IF fuel <= 0 \/ st.i >= rounds THEN st
  ELSE IF fuel = 1 THEN carryless_mul_body(st, a, b)
  ELSE carryless_mul_while(carryless_mul_while(st, a, b, rounds, fuel \div 2),
                           a, b, rounds, fuel - fuel \div 2)

carryless_mul_rounds(a, b, rounds) ==
  carryless_mul_while([result |-> {}, i |-> 0], a, b, rounds, rounds).result

carryless_mul(a, b) == carryless_mul_rounds(a, b, bit_length(b))

\* The loop's state is the product and its bit_length.  A round clears the
\* highest bit and changes only bits below it, so the next bit_length is
\* searched from there.
gf_reduce_poly_xor(product, r, highest_bit) ==
  XOR(product, {highest_bit} \cup Shl(r, highest_bit - 128))

gf_reduce_poly_state(reduced, highest_bit) ==
  [product |-> reduced, length |-> bit_length_from(reduced, highest_bit - 1)]

gf_reduce_poly_body(st, r) ==
  gf_reduce_poly_state(gf_reduce_poly_xor(st.product, r, st.length - 1), st.length - 1)

RECURSIVE gf_reduce_poly_while(_, _, _)
gf_reduce_poly_while(st, r, fuel) ==
  IF fuel <= 0 \/ st.length <= 128 THEN st
  ELSE IF fuel = 1 THEN gf_reduce_poly_body(st, r)
  ELSE gf_reduce_poly_while(gf_reduce_poly_while(st, r, fuel \div 2), r, fuel - fuel \div 2)

gf_reduce_poly_from(product, r, length) ==
  Mask128(gf_reduce_poly_while([product |-> product, length |-> length], r,
                               length - 128).product)

gf_reduce_poly(product, r) == gf_reduce_poly_from(product, r, bit_length(product))

\* The pair (q, r) is the record [q, r]; ZeroDivisionError for b = 0.
poly_divmod_raises(b) == b = {}

poly_divmod_step(st, b, shift) == [q |-> XOR(st.q, {shift}), r |-> XOR(st.r, Shl(b, shift))]

poly_divmod_body(st, b, deg_b) == poly_divmod_step(st, b, (bit_length(st.r) - 1) - deg_b)

RECURSIVE poly_divmod_while(_, _, _, _)
poly_divmod_while(st, b, deg_b, fuel) ==
  IF fuel <= 0 \/ st.r = {} \/ bit_length(st.r) - 1 < deg_b THEN st
  ELSE IF fuel = 1 THEN poly_divmod_body(st, b, deg_b)
  ELSE poly_divmod_while(poly_divmod_while(st, b, deg_b, fuel \div 2),
                         b, deg_b, fuel - fuel \div 2)

poly_divmod(a, b) ==
  IF b = {} THEN Raise
  ELSE poly_divmod_while([q |-> {}, r |-> a], b, bit_length(b) - 1, bit_length(a) + 1)

\* ValueError for a = 0.  v loses degree every round.
poly_inv_raises(a) == a = {}

\* u, v = v, r and s, t = t, s ^ q with the q*t left out.
poly_inv_assign_wrong_coeff(st, qr) ==
  [u |-> st.v, v |-> qr.r, s |-> st.t, t |-> XOR(st.s, qr.q)]

\* u, v = v, r and s, t = t, s ^ carryless_mul(q, t)
poly_inv_assign(st, qr) ==
  [u |-> st.v, v |-> qr.r, s |-> st.t, t |-> XOR(st.s, carryless_mul(qr.q, st.t))]

poly_inv_body(st) == poly_inv_assign(st, poly_divmod(st.u, st.v))

RECURSIVE poly_inv_while(_, _)
poly_inv_while(st, fuel) ==
  IF fuel <= 0 \/ st.v = {} THEN st
  ELSE IF fuel = 1 THEN poly_inv_body(st)
  ELSE poly_inv_while(poly_inv_while(st, fuel \div 2), fuel - fuel \div 2)

poly_inv(a, mod_poly) ==
  IF a = {} THEN Raise
  ELSE Mask128(poly_inv_while([u |-> {128} \cup mod_poly, v |-> a, s |-> {}, t |-> {0}],
                              bit_length(a) + 1).s)

\* x = x*base and base = base*base, both reduced, over the bits of exponent.
gf_square_and_multiply_step(st, e1, mod_poly) ==
  [x |-> IF 0 \in st.exponent
         THEN gf_reduce_poly(carryless_mul(st.x, st.base), mod_poly)
         ELSE st.x,
   base |-> IF e1 # {}
            THEN gf_reduce_poly(carryless_mul(st.base, st.base), mod_poly)
            ELSE st.base,
   exponent |-> e1]

gf_square_and_multiply_body(st, mod_poly) ==
  gf_square_and_multiply_step(st, Shr(st.exponent, 1), mod_poly)

RECURSIVE gf_square_and_multiply_while(_, _, _)
gf_square_and_multiply_while(st, mod_poly, fuel) ==
  IF fuel <= 0 \/ st.exponent = {} THEN st
  ELSE IF fuel = 1 THEN gf_square_and_multiply_body(st, mod_poly)
  ELSE gf_square_and_multiply_while(gf_square_and_multiply_while(st, mod_poly, fuel \div 2),
                                    mod_poly, fuel - fuel \div 2)

gf_square_and_multiply(x, base, exponent, mod_poly) ==
  gf_square_and_multiply_while([x |-> x, base |-> base, exponent |-> exponent],
                               mod_poly, bit_length(exponent)).x

-----------------------------------------------------------------------------
(* Bytes, and the codec between 16 GCM bytes and a bit vector *)

\* A Python list holds values: list(f) is the sequence f with its elements
\* computed.
list(f) == f \o <<>>

\* A non-negative number as a bit vector, and back.
Bits(n) == {i \in 0 .. 30 : (n \div 2 ^ i) % 2 = 1}

RECURSIVE Number(_)
Number(x) == IF x = {} THEN 0 ELSE LET i == CHOOSE i \in x : TRUE IN 2 ^ i + Number(x \ {i})

\* ((b & hi) >> n) | ((b & lo) << n)
swap_bits(b, hi, lo, n) == Shr(b \cap Bits(hi), n) \cup Shl(b \cap Bits(lo), n)

reverse_byte(b) ==
  Number(swap_bits(swap_bits(swap_bits(Bits(b), 240, 15, 4), 204, 51, 2), 170, 85, 1))

REVERSE_TABLE(i) == reverse_byte(i)

\* int.from_bytes(bs, "big")
from_bytes_big(bs) ==
  UNION {Shl(Bits(bs[j]), 8 * (Len(bs) - j)) : j \in 1 .. Len(bs)}

\* The bits beyond n bytes are dropped without an error.
to_bytes_big_never_raises(x, n) == FALSE

\* OverflowError: x does not fit into n bytes.
to_bytes_big_raises(x, n) == \E i \in x : i >= 8 * n

\* x.to_bytes(n, "big")
to_bytes_big(x, n) ==
  IF to_bytes_big_raises(x, n) THEN Raise
  ELSE list([j \in 1 .. n |-> Number({k \in 0 .. 7 : 8 * (n - j) + k \in x})])

reverse_bits_128_raises(x) == to_bytes_big_raises(x, 16)

\* b left in its order.
bytearray_not_reversed(b) == b

\* b.reverse()
bytearray_reverse(b) == list([i \in 1 .. Len(b) |-> b[Len(b) + 1 - i]])

\* for i in range(16): b[i] = REVERSE_TABLE[b[i]]
reverse_each_byte(b) == list([i \in 1 .. Len(b) |-> REVERSE_TABLE(b[i])])

reverse_bits_128(x) ==
  IF reverse_bits_128_raises(x) THEN Raise
  ELSE from_bytes_big(reverse_each_byte(bytearray_reverse(to_bytes_big(x, 16))))

bytes_to_int_gcm_raises(bs) == reverse_bits_128_raises(from_bytes_big(bs))
bytes_to_int_gcm(bs) == reverse_bits_128(from_bytes_big(bs))

int_to_bytes_gcm_raises(x) == reverse_bits_128_raises(x)
int_to_bytes_gcm(x) ==
  IF int_to_bytes_gcm_raises(x) THEN Raise ELSE to_bytes_big(reverse_bits_128(x), 16)

-----------------------------------------------------------------------------
(* class GF128 *)

GF128(value, poly) == [value |-> Mask128(value), poly |-> poly]

GF128_from_bytes_raises(b) == bytes_to_int_gcm_raises(b)
GF128_from_bytes(b, poly) ==
  IF GF128_from_bytes_raises(b) THEN Raise ELSE GF128(bytes_to_int_gcm(b), poly)

GF128_to_bytes(self) == int_to_bytes_gcm(self.value)

GF128_mul(self, other) ==
  IF self.poly # other.poly THEN Raise
  ELSE GF128(gf_reduce_poly(carryless_mul(self.value, other.value), POLYS[self.poly]),
             self.poly)

GF128_inv_raises(self) == poly_inv_raises(self.value)

GF128_inv(self) == GF128(poly_inv(self.value, POLYS[self.poly]), self.poly)

GF128_div_raises(self, other) == self.poly # other.poly \/ GF128_inv_raises(other)

GF128_div(self, other) ==
  IF self.poly # other.poly THEN Raise ELSE GF128_mul(self, GF128_inv(other))

GF128_pow(self, exponent) ==
  LET base == gf_reduce_poly(self.value, POLYS[self.poly])
  IN GF128(gf_square_and_multiply({0}, base, exponent, POLYS[self.poly]), self.poly)

\* 1 << 126
sqrt_exponent_halved == {126}

\* exponent = 1 << 127
sqrt_exponent == {127}

GF128_sqrt(self) == GF128_pow(self, sqrt_exponent)

-----------------------------------------------------------------------------
(* The field actions gf_mul, gf_inv, gf_div, applied to elements that are  *)
(* built from a few seeds by the operations themselves.                    *)

MaxChain == 1

GFSeeds == { {}, {0}, {1}, {0, 1}, {127}, {0, 1, 5, 77, 127}, 0 .. 127 }
GFOperands == { {}, {0, 1, 5, 77, 127} }

GFInit ==
  /\ gf \in [poly : PolyTags, a : GFSeeds, b : {{}}, op : {"arg"}, y : {{}}, n : {0}]
  /\ pl = Idle
  /\ fz = Idle
  /\ gc = Idle
  /\ po = Idle
  /\ rs = Idle
  /\ cl = Idle
  /\ km = Idle

gf_inv ==
  /\ gf.op = "arg"
  /\ LET x == GF128(gf.a, gf.poly)
     IN gf' = IF GF128_inv_raises(x)
              THEN [gf EXCEPT !.op = "error"]
              ELSE [gf EXCEPT !.op = "gf_inv", !.y = GF128_inv(x).value]
  /\ UNCHANGED gf_others

gf_mul ==
  /\ gf.op = "arg"
  /\ \E b \in GFOperands :
       gf' = [gf EXCEPT !.op = "gf_mul", !.b = b,
                        !.y = GF128_mul(GF128(gf.a, gf.poly), GF128(b, gf.poly)).value]
  /\ UNCHANGED gf_others

gf_div ==
  /\ gf.op = "arg"
  /\ \E b \in GFOperands :
       LET x == GF128(gf.a, gf.poly)
           d == GF128(b, gf.poly)
       IN gf' = IF GF128_div_raises(x, d)
                THEN [gf EXCEPT !.op = "error", !.b = b]
                ELSE [gf EXCEPT !.op = "gf_div", !.b = b, !.y = GF128_div(x, d).value]
  /\ UNCHANGED gf_others

\* The reply of one action is the argument of the next.
gf_chain ==
  /\ gf.op \in {"gf_inv", "gf_mul", "gf_div"}
  /\ gf.n < MaxChain
  /\ gf' = [gf EXCEPT !.op = "arg", !.a = gf.y, !.b = {}, !.y = {}, !.n = gf.n + 1]
  /\ UNCHANGED gf_others

GFNext == gf_inv \/ gf_mul \/ gf_div \/ gf_chain

SpecGF == GFInit /\ [][GFNext]_vars

\* C1: for every nonzero field element a and both reduction polynomials,
\* mul(a, inv(a)) is the element 1 and inv(a) is a value in [0, 2^128).
C1_InverseIsInverse ==
  gf.op = "gf_inv" =>
    /\ gf.y \subseteq 0 .. 127
    /\ GF128_mul(GF128(gf.a, gf.poly), GF128(gf.y, gf.poly)).value = {0}

C1_Witness ==
  /\ gf.op = "gf_inv"
  /\ gf.poly = "p2"
  /\ Cardinality(gf.a) > 64
  /\ Cardinality(gf.y) > 32

-----------------------------------------------------------------------------
(* class GFPoly.  coeffs[i + 1] is the coefficient of X^i. *)

Max2(a, b) == IF a >= b THEN a ELSE b

RECURSIVE normalize(_)
normalize(coeffs) ==
  IF Len(coeffs) > 1 /\ coeffs[Len(coeffs)].value = {}
  THEN normalize(SubSeq(coeffs, 1, Len(coeffs) - 1))
  ELSE coeffs

\* ValueError: an unknown tag, or a coefficient of another field.
GFPoly_raises(coeffs, poly) ==
  \/ poly \notin PolyTags
  \/ \E i \in 1 .. Len(coeffs) : coeffs[i].poly # poly

\* The coefficients are kept as they are given.
GFPoly_not_normalized(coeffs, poly) ==
  IF GFPoly_raises(coeffs, poly) THEN Raise
  ELSE [coeffs |-> IF Len(coeffs) = 0 THEN <<GF128({}, poly)>> ELSE coeffs, poly |-> poly]

GFPoly(coeffs, poly) ==
  IF GFPoly_raises(coeffs, poly) THEN Raise
  ELSE [coeffs |-> normalize(IF Len(coeffs) = 0 THEN <<GF128({}, poly)>> ELSE coeffs),
        poly |-> poly]

GFPoly_zero(poly) == GFPoly(<<GF128({}, poly)>>, poly)
GFPoly_one(poly) == GFPoly(<<GF128({0}, poly)>>, poly)
GFPoly_X(poly) == GFPoly(<<GF128({}, poly), GF128({0}, poly)>>, poly)

deg(self) == Len(self.coeffs) - 1
is_zero(self) == Len(self.coeffs) = 1 /\ self.coeffs[1].value = {}
is_one(self) == Len(self.coeffs) = 1 /\ self.coeffs[1].value = {0}

\* coeffs[-1]; IndexError on an empty list, which a GFPoly never holds.
leading_coeff(self) ==
  IF Len(self.coeffs) = 0 THEN Raise ELSE self.coeffs[Len(self.coeffs)]

any_nonzero(coeffs) == \E i \in 1 .. Len(coeffs) : coeffs[i].value # {}

\* [c * inv_lead_coeff for c in self.coeffs]
monic_scale(self, inv_lead_coeff) ==
  GFPoly(list([i \in 1 .. Len(self.coeffs) |-> GF128_mul(self.coeffs[i], inv_lead_coeff)]),
         self.poly)

monic(self) ==
  IF is_zero(self) THEN GFPoly_zero(self.poly)
  ELSE IF leading_coeff(self).value = {0} THEN self
  ELSE monic_scale(self, GF128_inv(leading_coeff(self)))

GFPoly_eq(self, other) == self.poly = other.poly /\ self.coeffs = other.coeffs

\* a < b for two bit vectors: they differ, and b has the highest bit in
\* which they do.
int_lt(a, b) == a # b /\ bit_length(XOR(a, b)) - 1 \in b

\* The highest index at which the coefficients of two polynomials of equal
\* degree differ, 0 if none.
RECURSIVE first_difference(_, _, _)
first_difference(ca, cb, i) ==
  IF i = 0 THEN 0
  ELSE IF ca[i].value # cb[i].value THEN i
  ELSE first_difference(ca, cb, i - 1)

\* The fields are not compared.
GFPoly_lt_never_raises(self, other) == FALSE

GFPoly_lt_raises(self, other) == self.poly # other.poly

\* The coefficients are not looked at.
GFPoly_lt_by_degree(self, other) == deg(self) < deg(other)

GFPoly_lt(self, other) ==
  IF deg(self) # deg(other) THEN deg(self) < deg(other)
  ELSE LET i == first_difference(self.coeffs, other.coeffs, Len(self.coeffs))
       IN i # 0 /\ int_lt(self.coeffs[i].value, other.coeffs[i].value)

GFPoly_binary_raises(self, other) == self.poly # other.poly

GFPoly_add(self, other) ==
  LET n == Max2(Len(self.coeffs), Len(other.coeffs))
      zero == GF128({}, self.poly)
      a(i) == IF i <= Len(self.coeffs) THEN self.coeffs[i] ELSE zero
      b(i) == IF i <= Len(other.coeffs) THEN other.coeffs[i] ELSE zero
  IN IF GFPoly_binary_raises(self, other) THEN Raise
     ELSE GFPoly(list([i \in 1 .. n |-> GF128(XOR(a(i).value, b(i).value), self.poly)]),
                 self.poly)

GFPoly_sub(self, other) == GFPoly_add(self, other)

\* out[i+j] ^= a_i * b_j over all i, j: the XOR of the products on one
\* anti-diagonal, in the order of i.
RECURSIVE mul_coefficient(_, _, _, _, _)
mul_coefficient(ca, cb, k, i, acc) ==
  IF i > Len(ca) \/ i > k THEN acc
  ELSE mul_coefficient(ca, cb, k, i + 1,
         IF k + 1 - i <= Len(cb)
         THEN XOR(acc, GF128_mul(ca[i], cb[k + 1 - i]).value)
         ELSE acc)

GFPoly_mul(self, other) ==
  IF GFPoly_binary_raises(self, other) THEN Raise
  ELSE GFPoly(list([k \in 1 .. deg(self) + deg(other) + 1 |->
                      GF128(mul_coefficient(self.coeffs, other.coeffs, k, 1, {}),
                            self.poly)]),
              self.poly)

\* ValueError: fields differ, or the divisor's leading coefficient is 0.
GFPoly_divmod_raises(self, other) ==
  GFPoly_binary_raises(self, other) \/ GF128_inv_raises(leading_coeff(other))

\* scale_factor without the division by the divisor's leading coefficient.
scale_factor_unscaled(R, inv_leading_divisor) == R[Len(R)]

\* R[-1] * inv_leading_divisor
scale_factor(R, inv_leading_divisor) == GF128_mul(R[Len(R)], inv_leading_divisor)

\* shift_degree zeros, then coeff_b * scale_factor for the coefficients of
\* the divisor.
scaled_shifted_divisor(other, shift_degree, factor) ==
  list([i \in 1 .. shift_degree |-> GF128({}, other.poly)]
         \o [i \in 1 .. Len(other.coeffs) |-> GF128_mul(other.coeffs[i], factor)])

coeff_or_zero(coeffs, i, poly) == IF i <= Len(coeffs) THEN coeffs[i] ELSE GF128({}, poly)

new_remainder(R, t, poly) ==
  list([i \in 1 .. Max2(Len(R), Len(t)) |->
          GF128(XOR(coeff_or_zero(R, i, poly).value, coeff_or_zero(t, i, poly).value), poly)])

\* The assignments of one round to Q[shift_degree] and to R.
divmod_assign(Q, R, other, shift_degree, factor) ==
  [Q |-> [Q EXCEPT ![shift_degree + 1] = GF128(XOR(@.value, factor.value), other.poly)],
   R |-> normalize(new_remainder(R, scaled_shifted_divisor(other, shift_degree, factor),
                                 other.poly))]

\* One round of the division loop on the lists Q and R.
divmod_body(st, other, inv_leading_divisor) ==
  divmod_assign(st.Q, st.R, other, (Len(st.R) - 1) - deg(other),
                scale_factor(st.R, inv_leading_divisor))

\* R gets shorter every round unless it is the zero polynomial.
RECURSIVE divmod_while(_, _, _, _)
divmod_while(st, other, inv_leading_divisor, fuel) ==
  IF fuel <= 0 \/ (Len(st.R) - 1) < deg(other) \/ ~any_nonzero(st.R) THEN st
  ELSE IF fuel = 1 THEN divmod_body(st, other, inv_leading_divisor)
  ELSE divmod_while(divmod_while(st, other, inv_leading_divisor, fuel \div 2),
                    other, inv_leading_divisor, fuel - fuel \div 2)

divmod_return(st, poly) == [Q |-> GFPoly(st.Q, poly), R |-> GFPoly(st.R, poly)]

\* The pair (Q, R) is the record [Q, R].
GFPoly_divmod(self, other) ==
  IF GFPoly_divmod_raises(self, other) THEN Raise
  ELSE divmod_return(
         divmod_while([Q |-> list([i \in 1 .. Max2(0, deg(self) - deg(other)) + 1 |->
                                     GF128({}, self.poly)]),
                       R |-> normalize(self.coeffs)],
                      other, GF128_inv(leading_coeff(other)), Len(self.coeffs) + 1),
         self.poly)

GFPoly_mod(self, other) == GFPoly_divmod(self, other).R

\* Q, R = A.divmod(B); A, B = B, R
gcd_body(st) == [A |-> st.B, B |-> GFPoly_divmod(st.A, st.B).R]

\* B loses degree every round.
RECURSIVE gcd_while(_, _)
gcd_while(st, fuel) ==
  IF fuel <= 0 \/ ~any_nonzero(st.B.coeffs) THEN st
  ELSE IF fuel = 1 THEN gcd_body(st)
  ELSE gcd_while(gcd_while(st, fuel \div 2), fuel - fuel \div 2)

\* gcd_return that returns the last nonzero remainder as it is.
gcd_return_not_monic(A, poly) == IF is_zero(A) THEN GFPoly_zero(poly) ELSE A

gcd_return(A, poly) == IF is_zero(A) THEN GFPoly_zero(poly) ELSE monic(A)

GFPoly_gcd(self, other) ==
  IF GFPoly_binary_raises(self, other) THEN Raise
  ELSE gcd_return(gcd_while([A |-> self, B |-> other], deg(other) + 2).A, self.poly)

\* One round of the loop of pow.  exponent is a bit vector.
pow_step(st, e1) ==
  [Z |-> IF 0 \in st.exponent THEN GFPoly_mul(st.Z, st.base) ELSE st.Z,
   base |-> IF e1 # {} THEN GFPoly_mul(st.base, st.base) ELSE st.base,
   exponent |-> e1]

pow_body(st) == pow_step(st, Shr(st.exponent, 1))

RECURSIVE pow_while(_, _)
pow_while(st, fuel) ==
  IF fuel <= 0 \/ st.exponent = {} THEN st
  ELSE IF fuel = 1 THEN pow_body(st)
  ELSE pow_while(pow_while(st, fuel \div 2), fuel - fuel \div 2)

GFPoly_pow(self, e) ==
  pow_while([Z |-> GFPoly_one(self.poly), base |-> GFPoly(self.coeffs, self.poly),
             exponent |-> e],
            bit_length(e)).Z

powmod_cond(st) == st.exponent # {}

\* The product without the reduction.
mulmod_not_reduced(a, b, M) == GFPoly_mul(a, b)

\* (a * b) % M
mulmod(a, b, M) == GFPoly_mod(GFPoly_mul(a, b), M)

powmod_step(st, e1, M) ==
  [Z |-> IF 0 \in st.exponent THEN mulmod(st.Z, st.base, M) ELSE st.Z,
   base |-> IF e1 # {} THEN mulmod(st.base, st.base, M) ELSE st.base,
   exponent |-> e1]

\* One round of the loop of powmod.
powmod_body(st, M) == powmod_step(st, Shr(st.exponent, 1), M)

RECURSIVE powmod_while(_, _, _)
powmod_while(st, M, fuel) ==
  IF fuel <= 0 \/ ~powmod_cond(st) THEN st
  ELSE IF fuel = 1 THEN powmod_body(st, M)
  ELSE powmod_while(powmod_while(st, M, fuel \div 2), M, fuel - fuel \div 2)

\* ValueError: fields differ, or the leading coefficient of M is 0.
GFPoly_powmod_raises(self, e, M) ==
  \/ GFPoly_binary_raises(self, M)
  \/ ~is_one(M) /\ e # {} /\ ~is_zero(self) /\ GFPoly_divmod_raises(self, M)

\* powmod returns before its loop: M = 1, e = 0 or self = 0.
powmod_returns_early(self, e, M) == is_one(M) \/ e = {} \/ is_zero(self)

powmod_early(self, e, M) ==
  IF is_one(M) THEN GFPoly_zero(self.poly)
  ELSE IF e = {} THEN GFPoly_one(self.poly)
  ELSE GFPoly_zero(self.poly)

\* The state the loop of powmod starts in.
powmod_start(self, e, M) ==
  [Z |-> GFPoly_one(self.poly), base |-> GFPoly_mod(self, M), exponent |-> e]

GFPoly_powmod(self, e, M) ==
  IF GFPoly_powmod_raises(self, e, M) THEN Raise
  ELSE IF powmod_returns_early(self, e, M) THEN powmod_early(self, e, M)
  ELSE powmod_while(powmod_start(self, e, M), M, bit_length(e)).Z

GFPoly_diff(self) ==
  IF Len(self.coeffs) <= 1 THEN GFPoly_zero(self.poly)
  ELSE GFPoly(list([i \in 1 .. Len(self.coeffs) - 1 |->
                      IF i % 2 = 1 THEN self.coeffs[i + 1] ELSE GF128({}, self.poly)]),
              self.poly)

GFPoly_sqrt(self) ==
  LET max_i == (Len(self.coeffs) - 1) \div 2
  IN GFPoly(list([i \in 1 .. max_i + 1 |-> GF128_sqrt(self.coeffs[2 * (i - 1) + 1])]),
            self.poly)

\* list.sort() and sorted(): stable, by GFPoly.__lt__.  x goes behind every
\* element that is not greater than it.
RECURSIVE insert_sorted(_, _)
insert_sorted(s, x) ==
  IF Len(s) = 0 THEN <<x>>
  ELSE IF GFPoly_lt(x, s[Len(s)])
       THEN Append(insert_sorted(SubSeq(s, 1, Len(s) - 1), x), s[Len(s)])
       ELSE Append(s, x)

RECURSIVE sort(_)
sort(z) ==
  IF Len(z) = 0 THEN <<>>
  ELSE insert_sorted(sort(SubSeq(z, 1, Len(z) - 1)), z[Len(z)])

\* sorted(z, key = lambda FE: FE[0]) on a list of pairs; a pair
\* (factor, exponent) or (factor, degree) is the record [factor, n].
RECURSIVE insert_sorted_pair(_, _)
insert_sorted_pair(s, x) ==
  IF Len(s) = 0 THEN <<x>>
  ELSE IF GFPoly_lt(x.factor, s[Len(s)].factor)
       THEN Append(insert_sorted_pair(SubSeq(s, 1, Len(s) - 1), x), s[Len(s)])
       ELSE Append(s, x)

RECURSIVE sorted_pairs(_)
sorted_pairs(z) ==
  IF Len(z) = 0 THEN <<>>
  ELSE insert_sorted_pair(sorted_pairs(SubSeq(z, 1, Len(z) - 1)), z[Len(z)])

\* ValueError from f.divmod(c): c = gcd(0, 0) = 0.
square_free_factorization_raises(self) == is_zero(self)

\* sff_assign that counts the exponent one too high.
sff_assign_wrong_exponent(st, y) ==
  [f_current |-> y,
   c_current |-> GFPoly_divmod(st.c_current, y).Q,
   e |-> st.e + 1,
   z |-> IF ~GFPoly_eq(st.f_current, y)
         THEN Append(st.z, [factor |-> monic(GFPoly_divmod(st.f_current, y).Q),
                            n |-> st.e + 1])
         ELSE st.z]

\* The assignments of one round, y being f_current.gcd(c_current).
sff_assign(st, y) ==
  [f_current |-> y,
   c_current |-> GFPoly_divmod(st.c_current, y).Q,
   e |-> st.e + 1,
   z |-> IF ~GFPoly_eq(st.f_current, y)
         THEN Append(st.z, [factor |-> monic(GFPoly_divmod(st.f_current, y).Q),
                            n |-> st.e])
         ELSE st.z]

\* One round of the loop of sff.
sff_body(st) == sff_assign(st, GFPoly_gcd(st.f_current, st.c_current))

sff_cond(st) == ~is_one(st.f_current)

\* f_current gets smaller every round.
RECURSIVE sff_while(_, _)
sff_while(st, fuel) ==
  IF fuel <= 0 \/ ~sff_cond(st) THEN st
  ELSE IF fuel = 1 THEN sff_body(st)
  ELSE sff_while(sff_while(st, fuel \div 2), fuel - fuel \div 2)

\* The factors of the square root, their exponents doubled.
doubled(r_factors) ==
  list([i \in 1 .. Len(r_factors) |->
          [factor |-> r_factors[i].factor, n |-> 2 * r_factors[i].n]])

\* The state sff enters its loop in, c being f.gcd(f.diff()).
sff_start(f, c) ==
  [f_current |-> GFPoly_divmod(f, c).Q, c_current |-> c, e |-> 1, z |-> <<>>]

RECURSIVE sff(_)

\* What follows the loop.
sff_return(st) ==
  IF ~is_one(st.c_current)
  THEN st.z \o doubled(sff(GFPoly_sqrt(st.c_current)))
  ELSE st.z

sff(f) == sff_return(sff_while(sff_start(f, GFPoly_gcd(f, GFPoly_diff(f))), deg(f) + 1))

square_free_factorization(self) ==
  IF square_free_factorization_raises(self) THEN Raise
  ELSE sorted_pairs(sff(monic(self)))

\* q ** d for q = 2 ** 128, as a bit vector.
q_pow(d) == {FieldBits * d}

\* The state distinct_degree_factorization enters its loop in.
ddf_start_from(f) == [f |-> f, z |-> <<>>, d |-> 1, f_star |-> GFPoly(f.coeffs, f.poly)]

ddf_start(self) == ddf_start_from(monic(self))

ddf_cond(st) == deg(st.f_star) >= 2 * st.d

\* The assignments of one round, g being h.gcd(f_star).
ddf_assign(st, g) ==
  IF ~is_one(g)
  THEN [st EXCEPT !.z = Append(@, [factor |-> monic(g), n |-> st.d]),
                  !.f_star = monic(GFPoly_divmod(st.f_star, g).Q),
                  !.d = @ + 1]
  ELSE [st EXCEPT !.d = @ + 1]

\* One round of the loop, x_pow being X.powmod(q ** d, f_star).
ddf_body(st, x_pow) ==
  ddf_assign(st, GFPoly_gcd(GFPoly_sub(x_pow, GFPoly_X(st.f.poly)), st.f_star))

\* ddf_finish that declares the degree of what is left of f_star one too
\* high.
ddf_finish_wrong_degree(st) ==
  sorted_pairs(IF ~is_one(st.f_star)
               THEN Append(st.z, [factor |-> monic(st.f_star), n |-> deg(st.f_star) + 1])
               ELSE IF Len(st.z) = 0 THEN <<[factor |-> st.f, n |-> 1]>>
               ELSE st.z)

\* What follows the loop.
ddf_finish(st) ==
  sorted_pairs(IF ~is_one(st.f_star)
               THEN Append(st.z, [factor |-> monic(st.f_star), n |-> deg(st.f_star)])
               ELSE IF Len(st.z) = 0 THEN <<[factor |-> st.f, n |-> 1]>>
               ELSE st.z)

\* One round with its powmod.
ddf_round(st) == ddf_body(st, GFPoly_powmod(GFPoly_X(st.f.poly), q_pow(st.d), st.f_star))

\* d grows every round.
RECURSIVE ddf_while(_, _)
ddf_while(st, fuel) ==
  IF fuel <= 0 \/ ~ddf_cond(st) THEN st
  ELSE IF fuel = 1 THEN ddf_round(st)
  ELSE ddf_while(ddf_while(st, fuel \div 2), fuel - fuel \div 2)

distinct_degree_factorization(self) == ddf_finish(ddf_while(ddf_start(self), deg(self)))

\* ValueError: deg(f) is not a multiple of d.
\* The remainder of the degree is not looked at.
equal_degree_factorization_never_raises(self, d) == FALSE

equal_degree_factorization_raises(self, d) == deg(monic(self)) % d # 0

\* (q ** d - 1) // 3 as a bit vector: the even positions below 128 * d.
edf_exponent(d) == {2 * i : i \in 0 .. (FieldBits \div 2) * d - 1}

\* The state equal_degree_factorization enters its loop in.
edf_start_from(f, d) == [f |-> f, n |-> deg(f) \div d, z |-> <<f>>]

edf_start(self, d) == edf_start_from(monic(self), d)

edf_cond(st) == Len(st.z) < st.n

\* The values deg_h may take: random.randrange(1, max(2, f.deg())).
edf_degrees(f) == 1 .. Max2(2, deg(f)) - 1

\* h from the drawn coefficients; the all-zero draw becomes h = 1.
edf_h(coeffs, poly) ==
  GFPoly(list([i \in 1 .. Len(coeffs) |->
                 GF128(IF i = 1 /\ \A k \in 1 .. Len(coeffs) : coeffs[k] = {}
                       THEN {0} ELSE coeffs[i], poly)]),
         poly)

\* z.remove(u): z without the first element equal to u.
RECURSIVE list_remove(_, _)
list_remove(z, u) ==
  IF Len(z) = 0 THEN Raise
  ELSE IF GFPoly_eq(z[1], u) THEN Tail(z)
  ELSE <<z[1]>> \o list_remove(Tail(z), u)

\* z.append(p) if p.deg() >= d
edf_append(z, p, d) == IF deg(p) >= d THEN Append(z, p) ELSE z

\* u leaves z; j_monic and q_monic enter it.
edf_replace(z, u, j_monic, q_monic, d) ==
  edf_append(edf_append(list_remove(z, u), j_monic, d), q_monic, d)

\* u is left alone whatever j is.
edf_split_never(z, u, j, d) == z

\* u is split by j = u.gcd(g) or left alone.
edf_split_by(z, u, j, d) ==
  IF ~is_one(j) /\ ~GFPoly_eq(j, u)
  THEN edf_replace(z, u, monic(j), monic(GFPoly_divmod(u, j).Q), d)
  ELSE z

\* The body of the for loop.
edf_split(z, u, g, d) == IF deg(u) > d THEN edf_split_by(z, u, GFPoly_gcd(u, g), d) ELSE z

\* for u in snapshot, from its i-th element on.
RECURSIVE edf_for(_, _, _, _, _)
edf_for(z, snapshot, i, g, d) ==
  IF i > Len(snapshot) THEN z
  ELSE edf_for(edf_split(z, snapshot[i], g, d), snapshot, i + 1, g, d)

\* One round of the while loop, h_pow_e being h.powmod(exponent, f).
edf_body(st, d, h_pow_e) ==
  [st EXCEPT !.z = edf_for(st.z, st.z, 1, GFPoly_sub(h_pow_e, GFPoly_one(st.f.poly)), d)]

\* edf_keep that keeps the polynomials of a degree above d.
edf_keep_above_d(p, d) == deg(p) > d /\ ~is_one(p) /\ ~is_zero(p)

\* if p.deg() == d and not p.is_one() and not p.is_zero()
edf_keep(p, d) == deg(p) = d /\ ~is_one(p) /\ ~is_zero(p)

\* [p.monic() for p in z if ...]
RECURSIVE edf_select(_, _)
edf_select(z, d) ==
  IF Len(z) = 0 THEN <<>>
  ELSE (IF edf_keep(z[1], d) THEN <<monic(z[1])>> ELSE <<>>) \o edf_select(Tail(z), d)

\* What follows the loop: the factors of degree d, monic and sorted.
edf_finish(st, d) == sort(edf_select(st.z, d))

-----------------------------------------------------------------------------
(* The polynomial actions gfpoly_divmod and gfpoly_gcd on polynomials with *)
(* sparse and dense coefficients: zero, constants, linear polynomials,     *)
(* products with common and with repeated factors, polynomials that are    *)
(* not monic.                                                              *)

e_one == {0}
e_a == {0, 1, 5, 77, 127}
e_b == 0 .. 127
e_c == {127}

Poly(vs, poly) == GFPoly(list([i \in 1 .. Len(vs) |-> GF128(vs[i], poly)]), poly)
Linear(a, poly) == Poly(<<a, e_one>>, poly)

PolyDividends(poly) ==
  { GFPoly_zero(poly),
    Poly(<<e_b>>, poly),
    Linear(e_a, poly),
    GFPoly_mul(Linear(e_a, poly), Linear(e_b, poly)),
    GFPoly_mul(Linear(e_a, poly), Linear(e_a, poly)),
    GFPoly_mul(Poly(<<e_c, e_a>>, poly), GFPoly_mul(Linear(e_b, poly), Linear(e_one, poly))),
    Poly(<<e_b, e_a, e_c, e_b>>, poly),
    Poly(<<e_c, e_one, e_one, {}, e_a>>, poly) }

PolyDivisors(poly) ==
  { GFPoly_zero(poly),
    GFPoly_one(poly),
    Poly(<<e_a>>, poly),
    Linear(e_b, poly),
    Poly(<<e_a, e_b>>, poly),
    GFPoly_mul(Linear(e_a, poly), Linear(e_one, poly)),
    Poly(<<e_b, e_c, e_a>>, poly) }

PolyInit ==
  /\ \E poly \in PolyTags :
       pl \in [poly : {poly}, A : PolyDividends(poly), B : PolyDivisors(poly),
               op : {"arg"}, Q : {GFPoly_zero(poly)}, R : {GFPoly_zero(poly)}]
  /\ gf = Idle
  /\ fz = Idle
  /\ gc = Idle
  /\ po = Idle
  /\ rs = Idle
  /\ cl = Idle
  /\ km = Idle

gfpoly_divmod ==
  /\ pl.op = "arg"
  /\ pl' = IF GFPoly_divmod_raises(pl.A, pl.B)
           THEN [pl EXCEPT !.op = "error"]
           ELSE LET QR == GFPoly_divmod(pl.A, pl.B)
                IN [pl EXCEPT !.op = "gfpoly_divmod", !.Q = QR.Q, !.R = QR.R]
  /\ UNCHANGED pl_others

gfpoly_gcd ==
  /\ pl.op = "arg"
  /\ pl' = [pl EXCEPT !.op = "gfpoly_gcd", !.R = GFPoly_gcd(pl.A, pl.B)]
  /\ UNCHANGED pl_others

\* The arguments the other way round.
gfpoly_swap ==
  /\ pl.op = "arg"
  /\ deg(pl.A) > deg(pl.B)
  /\ pl' = [pl EXCEPT !.A = pl.B, !.B = pl.A]
  /\ UNCHANGED pl_others

PolyNext == gfpoly_divmod \/ gfpoly_gcd \/ gfpoly_swap

SpecPoly == PolyInit /\ [][PolyNext]_vars

\* C2: for every A and every nonzero B over the same field, divmod(A, B)
\* returns (Q, R) with A = Q*B + R and deg(R) < deg(B), the zero remainder
\* counting as degree minus infinity.
C2_DivmodIdentity ==
  pl.op = "gfpoly_divmod" =>
    /\ ~is_zero(pl.B)
    /\ GFPoly_eq(pl.A, GFPoly_add(GFPoly_mul(pl.Q, pl.B), pl.R))
    /\ is_zero(pl.R) \/ deg(pl.R) < deg(pl.B)

C2_Witness ==
  /\ pl.op = "gfpoly_divmod"
  /\ deg(pl.A) >= 3
  /\ deg(pl.B) = 2
  /\ leading_coeff(pl.B).value # {0}
  /\ deg(pl.Q) >= 1
  /\ deg(pl.R) = 1

\* C3: G = gcd(A, B) divides A and B whenever it is not zero, its leading
\* coefficient is 1 unless it is the zero polynomial, and gcd(0, 0) = 0.
C3_GcdDividesAndMonic ==
  pl.op = "gfpoly_gcd" =>
    LET G == pl.R
    IN /\ ~is_zero(G) => /\ is_zero(GFPoly_mod(pl.A, G))
                         /\ is_zero(GFPoly_mod(pl.B, G))
                         /\ leading_coeff(G).value = {0}
       /\ is_zero(pl.A) /\ is_zero(pl.B) => is_zero(G)
       /\ is_zero(G) => is_zero(pl.A) /\ is_zero(pl.B)

C3_Witness ==
  /\ pl.op = "gfpoly_gcd"
  /\ deg(pl.A) = 3
  /\ leading_coeff(pl.A).value # {0}
  /\ deg(pl.B) = 2
  /\ deg(pl.R) = 1

\* gcd(0, 0) is reached as well.
C3_WitnessZero ==
  pl.op = "gfpoly_gcd" /\ is_zero(pl.A) /\ is_zero(pl.B) /\ is_zero(pl.R)

-----------------------------------------------------------------------------
(* gfpoly_factor_sff on s * (X + a)^i * (X + b)^j: every pair of exponents *)
(* with i + j <= MaxDegF, monic (s = 1) or not.                            *)

MaxDegF == 4

RECURSIVE Power(_, _)
Power(f, n) == IF n = 0 THEN GFPoly_one(f.poly) ELSE GFPoly_mul(f, Power(f, n - 1))

SFFInit ==
  /\ \E poly \in PolyTags, s \in {e_one, e_b}, i \in 0 .. MaxDegF, j \in 0 .. MaxDegF :
       /\ i + j <= MaxDegF
       /\ fz = [poly |-> poly, op |-> "arg", z |-> <<>>, i |-> i, j |-> j,
                F |-> GFPoly_mul(Poly(<<s>>, poly),
                                 GFPoly_mul(Power(Linear(e_a, poly), i),
                                            Power(Linear(e_b, poly), j)))]
  /\ gf = Idle
  /\ pl = Idle
  /\ gc = Idle
  /\ po = Idle
  /\ rs = Idle
  /\ cl = Idle
  /\ km = Idle

gfpoly_factor_sff ==
  /\ fz.op = "arg"
  /\ fz' = IF square_free_factorization_raises(fz.F)
           THEN [fz EXCEPT !.op = "error"]
           ELSE [fz EXCEPT !.op = "gfpoly_factor_sff", !.z = square_free_factorization(fz.F)]
  /\ UNCHANGED fz_others

SFFNext == gfpoly_factor_sff

SpecSFF == SFFInit /\ [][SFFNext]_vars

\* The product of factor^exponent over the pairs of z.
RECURSIVE product_of_powers(_, _)
product_of_powers(z, poly) ==
  IF Len(z) = 0 THEN GFPoly_one(poly)
  ELSE GFPoly_mul(product_of_powers(SubSeq(z, 1, Len(z) - 1), poly),
                  GFPoly_pow(z[Len(z)].factor, Bits(z[Len(z)].n)))

square_free(f) == is_one(GFPoly_gcd(f, GFPoly_diff(f)))

\* C4: for every nonzero F, square_free_factorization returns pairs whose
\* product of factor^exponent is monic(F); every factor is monic and
\* square-free, the factors are pairwise coprime, and the pairs ascend by
\* factor under the polynomial ordering.
C4_SquareFreeFactorization ==
  fz.op = "gfpoly_factor_sff" =>
    LET z == fz.z
    IN /\ ~is_zero(fz.F)
       /\ GFPoly_eq(product_of_powers(z, fz.poly), monic(fz.F))
       /\ \A k \in 1 .. Len(z) :
            /\ leading_coeff(z[k].factor).value = {0}
            /\ deg(z[k].factor) >= 1
            /\ z[k].n >= 1
            /\ square_free(z[k].factor)
       /\ \A k, l \in 1 .. Len(z) :
            k < l => is_one(GFPoly_gcd(z[k].factor, z[l].factor))
       /\ \A k \in 1 .. Len(z) - 1 : GFPoly_lt(z[k].factor, z[k + 1].factor)

\* (X + a)^2 * (X + b)^1, not monic: the factors X + b and X + a with the
\* exponents 1 and 2.
C4_Witness ==
  /\ fz.op = "gfpoly_factor_sff"
  /\ fz.i = 2 /\ fz.j = 1
  /\ leading_coeff(fz.F).value # {0}
  /\ Len(fz.z) = 2
  /\ {fz.z[1], fz.z[2]} = {[factor |-> Linear(e_a, fz.poly), n |-> 2],
                           [factor |-> Linear(e_b, fz.poly), n |-> 1]}

-----------------------------------------------------------------------------
(* gfpoly_factor_ddf on the products of distinct irreducible polynomials  *)
(* of degree 1 and 2, up to degree MaxDegDDF.  The rounds of the loop of   *)
(* powmod are steps of their own.                                          *)

MaxDegDDF == 4

\* The trace c + c^2 + c^4 + ... + c^(2^127) of a field element, 0 or 1.
Trace(c) ==
  LET Cond(st) == st.i < FieldBits
      Body(st) == LET s2 == GF128_mul(st.s, st.s)
                  IN [s |-> s2, t |-> XOR(st.t, s2.value), i |-> st.i + 1]
      RECURSIVE loop(_, _)
      loop(st, fuel) ==
        IF fuel <= 0 \/ ~Cond(st) THEN st
        ELSE IF fuel = 1 THEN Body(st)
        ELSE loop(loop(st, fuel \div 2), fuel - fuel \div 2)
  IN loop([s |-> c, t |-> c.value, i |-> 1], FieldBits).t

\* X^2 + X + c, irreducible over the field exactly if the trace of c is 1.
Quadratic(c, poly) == Poly(<<c, e_one, e_one>>, poly)
QuadraticSeeds == {{59}, {89}, {121}, {127}}

\* The irreducible polynomials the inputs are built from, with their
\* degrees.
Irreducibles(poly) ==
  {[factor |-> Linear(a, poly), n |-> 1] : a \in {e_a, e_b}}
    \cup {[factor |-> Quadratic(c, poly), n |-> 2] :
            c \in {c \in QuadraticSeeds : Trace(GF128(c, poly)) = {0}}}

RECURSIVE SumOfDegrees(_)
SumOfDegrees(S) ==
  IF S = {} THEN 0 ELSE LET x == CHOOSE x \in S : TRUE IN x.n + SumOfDegrees(S \ {x})

RECURSIVE ProductOf(_, _)
ProductOf(S, poly) ==
  IF S = {} THEN GFPoly_one(poly)
  ELSE LET x == CHOOSE x \in S : TRUE IN GFPoly_mul(x.factor, ProductOf(S \ {x}, poly))

\* Degree MaxDegDDF is reached in the field p1, one less in p2.
DDFDegrees(poly) == IF poly = "p1" THEN MaxDegDDF ELSE MaxDegDDF - 1

NoPowmod == [Z |-> <<>>, base |-> <<>>, exponent |-> {}]
NoDDF == [f |-> <<>>, z |-> <<>>, d |-> 0, f_star |-> <<>>]

DDFInit ==
  /\ \E poly \in PolyTags :
       \E irr \in SUBSET Irreducibles(poly) :
         /\ SumOfDegrees(irr) <= DDFDegrees(poly)
         /\ fz = [poly |-> poly, op |-> "arg", pc |-> "call", irr |-> irr,
                  F |-> ProductOf(irr, poly), st |-> NoDDF, pm |-> NoPowmod, z |-> <<>>]
  /\ gf = Idle
  /\ pl = Idle
  /\ gc = Idle
  /\ po = Idle
  /\ rs = Idle
  /\ cl = Idle
  /\ km = Idle

\* F.distinct_degree_factorization() up to the loop.
ddf_call ==
  /\ fz.pc = "call"
  /\ fz' = [fz EXCEPT !.pc = "while", !.st = ddf_start(fz.F)]
  /\ UNCHANGED fz_others

\* The loop goes on: X.powmod(q ** d, f_star) up to its loop.
ddf_powmod_call ==
  /\ fz.pc = "while"
  /\ ddf_cond(fz.st)
  /\ LET X == GFPoly_X(fz.poly)
         e == q_pow(fz.st.d)
     IN fz' = IF GFPoly_powmod_raises(X, e, fz.st.f_star)
              THEN [fz EXCEPT !.pc = "done", !.op = "error"]
              ELSE IF powmod_returns_early(X, e, fz.st.f_star)
              THEN [fz EXCEPT !.st = ddf_body(@, powmod_early(X, e, fz.st.f_star))]
              ELSE [fz EXCEPT !.pc = "powmod", !.pm = powmod_start(X, e, fz.st.f_star)]
  /\ UNCHANGED fz_others

\* One round of the loop of powmod.
ddf_powmod_round ==
  /\ fz.pc = "powmod"
  /\ powmod_cond(fz.pm)
  /\ fz' = [fz EXCEPT !.pm = powmod_body(@, fz.st.f_star)]
  /\ UNCHANGED fz_others

\* powmod returns Z; the rest of the round of the loop of the factorisation.
ddf_powmod_return ==
  /\ fz.pc = "powmod"
  /\ ~powmod_cond(fz.pm)
  /\ fz' = [fz EXCEPT !.pc = "while", !.st = ddf_body(@, fz.pm.Z), !.pm = NoPowmod]
  /\ UNCHANGED fz_others

\* The loop is left: the sorted pairs are the result of the action.
gfpoly_factor_ddf ==
  /\ fz.pc = "while"
  /\ ~ddf_cond(fz.st)
  /\ fz' = [fz EXCEPT !.pc = "done", !.op = "gfpoly_factor_ddf", !.z = ddf_finish(fz.st)]
  /\ UNCHANGED fz_others

DDFNext ==
  \/ ddf_call
  \/ ddf_powmod_call
  \/ ddf_powmod_round
  \/ ddf_powmod_return
  \/ gfpoly_factor_ddf

SpecDDF == DDFInit /\ [][DDFNext]_vars

\* The product of the factors of the pairs of z.
RECURSIVE product_of_factors(_, _)
product_of_factors(z, poly) ==
  IF Len(z) = 0 THEN GFPoly_one(poly)
  ELSE GFPoly_mul(product_of_factors(SubSeq(z, 1, Len(z) - 1), poly), z[Len(z)].factor)

\* C5: for a monic square-free F, the factors of the pairs (factor, d) that
\* distinct_degree_factorization returns multiply to F, and the factor of a
\* pair is the product of all irreducible polynomials of degree d that
\* divide F.
C5_DistinctDegreeFactorization ==
  fz.op = "gfpoly_factor_ddf" =>
    /\ GFPoly_eq(product_of_factors(fz.z, fz.poly), fz.F)
    /\ \A k \in 1 .. Len(fz.z) :
         GFPoly_eq(fz.z[k].factor,
                   ProductOf({x \in fz.irr : x.n = fz.z[k].n}, fz.poly))

\* A linear and a quadratic irreducible factor: the loop splits the linear
\* one off and the quadratic one is what is left of f_star.
C5_Witness ==
  /\ fz.op = "gfpoly_factor_ddf"
  /\ {x.n : x \in fz.irr} = {1, 2}
  /\ Len(fz.z) = 2
  /\ fz.z[1].n = 1 /\ fz.z[2].n = 2
  /\ fz.st.d = 2

\* Two linear factors: one factor of degree 2 with the declared degree 1.
C5_WitnessProduct ==
  /\ fz.op = "gfpoly_factor_ddf"
  /\ Cardinality(fz.irr) = 2
  /\ Len(fz.z) = 1
  /\ fz.z[1].n = 1 /\ deg(fz.z[1].factor) = 2

-----------------------------------------------------------------------------
(* gfpoly_factor_edf with d in 1 .. 2, on products of up to MaxFactors     *)
(* linear polynomials and on the irreducible quadratic polynomials.  What  *)
(* random draws is chosen from Draws.                                      *)

MaxFactors == 3

LinearRoots == <<e_a, e_b, e_c, e_one>>

\* Three factors are reached in the field p1, one less in p2.
EDFFactors(poly) == IF poly = "p1" THEN MaxFactors ELSE MaxFactors - 1

LinearFactors(poly, n) ==
  {[factor |-> Linear(LinearRoots[k], poly), n |-> 1] : k \in 1 .. n}

EDFInputs(poly) ==
  {[irr |-> LinearFactors(poly, n), d |-> d] :
     n \in 0 .. EDFFactors(poly), d \in 1 .. 2}
    \cup {[irr |-> {x}, d |-> 2] : x \in {x \in Irreducibles(poly) : x.n = 2}}

\* The coefficients random.getrandbits(128) returns for one h: all zero,
\* X + 1 and X + x^7.
Draws == {<<{}, {}>>, <<{0}, {0}>>, <<{7}, {0}>>}

NoEDF == [f |-> <<>>, n |-> 0, z |-> <<>>]

EDFInit ==
  /\ \E poly \in PolyTags :
       \E in \in EDFInputs(poly) :
         fz = [poly |-> poly, op |-> "arg", pc |-> "call", irr |-> in.irr, d |-> in.d,
               F |-> ProductOf(in.irr, poly), st |-> NoEDF, pm |-> NoPowmod, z |-> <<>>]
  /\ gf = Idle
  /\ pl = Idle
  /\ gc = Idle
  /\ po = Idle
  /\ rs = Idle
  /\ cl = Idle
  /\ km = Idle

\* F.equal_degree_factorization(d) up to the loop.
edf_call ==
  /\ fz.pc = "call"
  /\ fz' = IF equal_degree_factorization_raises(fz.F, fz.d)
           THEN [fz EXCEPT !.pc = "done", !.op = "error"]
           ELSE [fz EXCEPT !.pc = "while", !.st = edf_start(fz.F, fz.d)]
  /\ UNCHANGED fz_others

\* The loop goes on: h is drawn, h.powmod(exponent, f) up to its loop.
edf_draw ==
  /\ fz.pc = "while"
  /\ edf_cond(fz.st)
  /\ \E coeffs \in Draws :
       /\ Len(coeffs) - 1 \in edf_degrees(fz.st.f)
       /\ LET h == edf_h(coeffs, fz.poly)
              e == edf_exponent(fz.d)
          IN fz' = IF GFPoly_powmod_raises(h, e, fz.st.f)
                   THEN [fz EXCEPT !.pc = "done", !.op = "error"]
                   ELSE IF powmod_returns_early(h, e, fz.st.f)
                   THEN [fz EXCEPT !.st = edf_body(@, fz.d, powmod_early(h, e, fz.st.f))]
                   ELSE [fz EXCEPT !.pc = "powmod", !.pm = powmod_start(h, e, fz.st.f)]
  /\ UNCHANGED fz_others

\* One round of the loop of powmod.
edf_powmod_round ==
  /\ fz.pc = "powmod"
  /\ powmod_cond(fz.pm)
  /\ fz' = [fz EXCEPT !.pm = powmod_body(@, fz.st.f)]
  /\ UNCHANGED fz_others

\* powmod returns Z; the rest of the round of the while loop.
edf_powmod_return ==
  /\ fz.pc = "powmod"
  /\ ~powmod_cond(fz.pm)
  /\ fz' = [fz EXCEPT !.pc = "while", !.st = edf_body(@, fz.d, fz.pm.Z), !.pm = NoPowmod]
  /\ UNCHANGED fz_others

\* The loop is left: the sorted factors are the result of the action.
gfpoly_factor_edf ==
  /\ fz.pc = "while"
  /\ ~edf_cond(fz.st)
  /\ fz' = [fz EXCEPT !.pc = "done", !.op = "gfpoly_factor_edf", !.z = edf_finish(fz.st, fz.d)]
  /\ UNCHANGED fz_others

EDFNext ==
  \/ edf_call
  \/ edf_draw
  \/ edf_powmod_round
  \/ edf_powmod_return
  \/ gfpoly_factor_edf

SpecEDF == EDFInit /\ [][EDFNext]_vars

\* The product of the polynomials of z.
RECURSIVE product_of_list(_, _)
product_of_list(z, poly) ==
  IF Len(z) = 0 THEN GFPoly_one(poly)
  ELSE GFPoly_mul(product_of_list(SubSeq(z, 1, Len(z) - 1), poly), z[Len(z)])

\* C6: for a monic square-free F whose irreducible factors all have degree
\* d, what equal_degree_factorization(d) returns multiplies to F, every
\* factor is monic of degree d, there are deg(F) / d factors, and they
\* ascend under the polynomial ordering, whatever h were drawn.
C6_EqualDegreeFactorization ==
  (fz.op = "gfpoly_factor_edf" /\ \A x \in fz.irr : x.n = fz.d) =>
    /\ GFPoly_eq(product_of_list(fz.z, fz.poly), fz.F)
    /\ \A k \in 1 .. Len(fz.z) :
         leading_coeff(fz.z[k]).value = {0} /\ deg(fz.z[k]) = fz.d
    /\ Len(fz.z) * fz.d = deg(fz.F)
    /\ \A k \in 1 .. Len(fz.z) - 1 : GFPoly_lt(fz.z[k], fz.z[k + 1])

\* Three linear factors, found in two splits.
C6_Witness ==
  /\ fz.op = "gfpoly_factor_edf"
  /\ fz.d = 1
  /\ Cardinality(fz.irr) = 3
  /\ {fz.z[k] : k \in 1 .. Len(fz.z)} = {x.factor : x \in fz.irr}

-----------------------------------------------------------------------------
(* aes_gcm.py.  AES-128 is the library's: gc.aes[K] is the block function  *)
(* of the key K, a table over the blocks that are encrypted.               *)

BLOCK_SIZE == 16

\* bytes(n)
zero_bytes(n) == list([i \in 1 .. n |-> 0])

aes_ecb_encrypt_block(key_bytes, block16) == gc.aes[key_bytes][block16]

\* The position of the lowest 0 of the bit vector x.
lowest_zero(x) ==
  CHOOSE k \in 0 .. Cardinality(x) : k \notin x /\ \A j \in 0 .. k - 1 : j \in x

\* x + 1 for a bit vector x: the lowest 0 becomes 1, the 1s below it 0.
carry_to(x, k) == (x \ (0 .. k - 1)) \cup {k}

add_one(x) == carry_to(x, lowest_zero(x))

\* nonce_prefix + new_counter_bytes
inc32_from(nonce_prefix, counter_value) ==
  nonce_prefix \o to_bytes_big(add_one(counter_value) \cap (0 .. 31), 4)

inc32(counter_block) ==
  inc32_from(SubSeq(counter_block, 1, 12),
             from_bytes_big(SubSeq(counter_block, 13, Len(counter_block))))

\* The pair (blocks, length) is the record [blocks, length].
split_blocks(b) ==
  [blocks |-> list([k \in 1 .. (Len(b) + 15) \div 16 |->
                      SubSeq(b, 16 * (k - 1) + 1,
                             IF 16 * k <= Len(b) THEN 16 * k ELSE Len(b))]),
   length |-> Len(b)]

pad_to_block(b) ==
  IF Len(b) % 16 = 0 THEN b ELSE b \o zero_bytes(16 - (Len(b) % 16))

gcm_len_block(len_a_int, len_c_int) ==
  to_bytes_big(Bits(len_a_int), 8) \o to_bytes_big(Bits(len_c_int), 8)

xor_bytes(a, b) ==
  list([i \in 1 .. (IF Len(a) <= Len(b) THEN Len(a) ELSE Len(b)) |->
          Number(XOR(Bits(a[i]), Bits(b[i])))])

\* step of ghash: X = (X xor block) * H
ghash_step(X_bytes, ad_block_bytes, H_bytes, mod_poly) ==
  int_to_bytes_gcm(
    gf_reduce_poly(carryless_mul(XOR(bytes_to_int_gcm(X_bytes),
                                     bytes_to_int_gcm(ad_block_bytes)),
                                 bytes_to_int_gcm(H_bytes)),
                   mod_poly))

\* for block in blocks: X = step(X, block)
RECURSIVE ghash_for(_, _, _, _, _)
ghash_for(st, blocks, H_bytes, mod_poly, fuel) ==
  IF fuel <= 0 \/ st.i > Len(blocks) THEN st
  ELSE IF fuel = 1
  THEN [X |-> ghash_step(st.X, blocks[st.i], H_bytes, mod_poly), i |-> st.i + 1]
  ELSE ghash_for(ghash_for(st, blocks, H_bytes, mod_poly, fuel \div 2),
                 blocks, H_bytes, mod_poly, fuel - fuel \div 2)

ghash_blocks(X, blocks, H_bytes, mod_poly) ==
  ghash_for([X |-> X, i |-> 1], blocks, H_bytes, mod_poly, Len(blocks)).X

\* The length block with the lengths in bytes.
ghash_len_block_in_bytes(A, C) == gcm_len_block(Len(A), Len(C))

\* L = gcm_len_block(len(A)*8, len(C)*8)
ghash_len_block(A, C) == gcm_len_block(Len(A) * 8, Len(C) * 8)

\* X = step(X, L); return X, L
ghash_return(X, L, H_bytes, mod_poly) == [X |-> ghash_step(X, L, H_bytes, mod_poly), L |-> L]

\* The pair (X, L) is the record [X, L].
ghash(H_bytes, A, C, poly) ==
  ghash_return(
    ghash_blocks(ghash_blocks(zero_bytes(BLOCK_SIZE), split_blocks(pad_to_block(A)).blocks,
                              H_bytes, POLYS[poly]),
                 split_blocks(pad_to_block(C)).blocks, H_bytes, POLYS[poly]),
    ghash_len_block(A, C), H_bytes, POLYS[poly])

\* One round of the CTR loop on the block p.
gcm_ctr_body(st, key_bytes, p) ==
  [c_chunks |-> st.c_chunks
                  \o xor_bytes(p, SubSeq(aes_ecb_encrypt_block(key_bytes, st.Y), 1, Len(p))),
   Y |-> inc32(st.Y),
   i |-> st.i + 1]

RECURSIVE gcm_ctr_for(_, _, _, _)
gcm_ctr_for(st, key_bytes, p_blocks, fuel) ==
  IF fuel <= 0 \/ st.i > Len(p_blocks) THEN st
  ELSE IF fuel = 1 THEN gcm_ctr_body(st, key_bytes, p_blocks[st.i])
  ELSE gcm_ctr_for(gcm_ctr_for(st, key_bytes, p_blocks, fuel \div 2),
                   key_bytes, p_blocks, fuel - fuel \div 2)

\* The CTR loop: the chunks of the ciphertext, joined.
gcm_ctr(key_bytes, p_blocks, Y) ==
  gcm_ctr_for([c_chunks |-> <<>>, Y |-> Y, i |-> 1], key_bytes, p_blocks,
              Len(p_blocks)).c_chunks

\* tag = xor_bytes(E_Y0, S) and the reply.
gcm_reply(ciphertext, SL, E_Y0, H) ==
  [ciphertext |-> ciphertext, tag |-> xor_bytes(E_Y0, SL.X), L |-> SL.L, H |-> H]

\* Steps 4 and 5 on the ciphertext.
gcm_authenticate(key_bytes, nonce_bytes, ciphertext, ad_bytes, poly, H) ==
  gcm_reply(ciphertext, ghash(H, ad_bytes, ciphertext, poly),
            aes_ecb_encrypt_block(key_bytes, nonce_bytes \o to_bytes_big(Bits(1), 4)), H)

gcm_encrypt_reply(key_bytes, nonce_bytes, plaintext_bytes, ad_bytes, poly) ==
  gcm_authenticate(key_bytes, nonce_bytes,
                   gcm_ctr(key_bytes, split_blocks(plaintext_bytes).blocks,
                           nonce_bytes \o to_bytes_big(Bits(2), 4)),
                   ad_bytes, poly,
                   aes_ecb_encrypt_block(key_bytes, zero_bytes(BLOCK_SIZE)))

-----------------------------------------------------------------------------
(* gcm_encrypt on plaintexts of up to MaxBlocks whole blocks and a partial *)
(* one, with every block of the pool as the value of AES at some block,    *)
(* and inc32 on counters up to the wrap.                                   *)

MaxBlocks == 2

\* n bytes that differ from one another.
Pattern(n, seed) == list([i \in 1 .. n |-> (seed + 37 * i) % 256])

Key == zero_bytes(16)
Nonces == {zero_bytes(12), Pattern(12, 200)}

\* Values of AES: the field elements 0 and 1 and a dense block.
BlockPool == <<Pattern(16, 91), <<128>> \o zero_bytes(15), zero_bytes(16)>>

\* 4 big-endian bytes of a number.
BE32(n) == <<(n \div 16777216) % 256, (n \div 65536) % 256, (n \div 256) % 256, n % 256>>

\* The blocks gcm_encrypt encrypts under a nonce, in a fixed order.
AesBlocks(nonce) ==
  <<zero_bytes(16)>> \o [k \in 1 .. MaxBlocks + 2 |-> nonce \o BE32(k)]

\* The table that gives the k-th block the (k + s)-th value of the pool.
AesTable(nonce, s) ==
  LET blocks == AesBlocks(nonce)
  IN [b \in {blocks[k] : k \in 1 .. Len(blocks)} |->
        LET k == CHOOSE k \in 1 .. Len(blocks) : blocks[k] = b
        IN BlockPool[((k + s) % Len(BlockPool)) + 1]]

DataLengths == {16 * k + r : k \in 0 .. MaxBlocks, r \in {0, 1}}
AdLengths == {0, 1, 17}

Counters ==
  {<<0, 0, 0, 0>>, <<0, 0, 0, 255>>, <<0, 0, 255, 255>>, <<0, 255, 255, 255>>,
   <<127, 255, 255, 255>>, <<255, 255, 255, 254>>, <<255, 255, 255, 255>>,
   <<18, 52, 86, 120>>}

NoReply == [ciphertext |-> <<>>, tag |-> <<>>, L |-> <<>>, H |-> <<>>]

GCMInit ==
  /\ \E poly \in PolyTags, nonce \in Nonces, s \in 0 .. Len(BlockPool) - 1 :
       \/ \E n \in DataLengths, m \in AdLengths :
            gc = [op |-> "arg", call |-> "gcm_encrypt", poly |-> poly,
                  aes |-> [k \in {Key} |-> AesTable(nonce, s)],
                  key |-> Key, nonce |-> nonce,
                  plaintext |-> Pattern(n, 3), ad |-> Pattern(m, 111),
                  Y |-> <<>>, Y_next |-> <<>>, reply |-> NoReply]
       \/ \E c \in Counters :
            gc = [op |-> "arg", call |-> "inc32", poly |-> poly,
                  aes |-> [k \in {Key} |-> AesTable(nonce, s)],
                  key |-> Key, nonce |-> nonce, plaintext |-> <<>>, ad |-> <<>>,
                  Y |-> nonce \o c, Y_next |-> <<>>, reply |-> NoReply]
  /\ gf = Idle
  /\ pl = Idle
  /\ fz = Idle
  /\ po = Idle
  /\ rs = Idle
  /\ cl = Idle
  /\ km = Idle

gcm_encrypt ==
  /\ gc.op = "arg"
  /\ gc.call = "gcm_encrypt"
  /\ gc' = [gc EXCEPT !.op = "gcm_encrypt",
                      !.reply = gcm_encrypt_reply(gc.key, gc.nonce, gc.plaintext, gc.ad, gc.poly)]
  /\ UNCHANGED gc_others

gcm_inc32 ==
  /\ gc.op = "arg"
  /\ gc.call = "inc32"
  /\ gc' = [gc EXCEPT !.op = "inc32", !.Y_next = inc32(gc.Y)]
  /\ UNCHANGED gc_others

GCMNext == gcm_encrypt \/ gcm_inc32

SpecGCM == GCMInit /\ [][GCMNext]_vars

\* The XOR of two bytes, bit by bit.
RefXor(x, y) ==
  LET bit(i) == ((x \div 2 ^ i) + (y \div 2 ^ i)) % 2
  IN bit(0) + 2 * bit(1) + 4 * bit(2) + 8 * bit(3)
       + 16 * bit(4) + 32 * bit(5) + 64 * bit(6) + 128 * bit(7)

\* The k-th block (k = 0, 1, ...) of data, padded with zero bytes, as a
\* polynomial: the coefficient of x^i is bit 7 - i mod 8 of byte i div 8.
RefBlockPoly(data, k) ==
  {i \in 0 .. 127 :
     /\ 16 * k + (i \div 8) + 1 <= Len(data)
     /\ (data[16 * k + (i \div 8) + 1] \div 2 ^ (7 - (i % 8))) % 2 = 1}

RefPolyBlock(x) ==
  [j \in 1 .. 16 |->
     LET bit(k) == IF 8 * (j - 1) + k \in x THEN 2 ^ (7 - k) ELSE 0
     IN bit(0) + bit(1) + bit(2) + bit(3) + bit(4) + bit(5) + bit(6) + bit(7)]

\* 8 big-endian bytes of a number below 2^31.
RefBE64(n) == <<0, 0, 0, 0>> \o BE32(n)

\* X <- (X + block) * H over the blocks of data.
RECURSIVE RefHorner(_, _, _, _)
RefHorner(X, data, k, H) ==
  IF 16 * k >= Len(data) THEN X
  ELSE RefHorner(GF128_mul(GF128(XOR(X.value, RefBlockPoly(data, k)), H.poly), H),
                 data, k + 1, H)

\* GHASH_H(A, C) as 16 bytes.
RefGHASH(H_bytes, A, C, poly) ==
  LET H == GF128(RefBlockPoly(H_bytes, 0), poly)
      X1 == RefHorner(GF128({}, poly), A, 0, H)
      X2 == RefHorner(X1, C, 0, H)
      X3 == RefHorner(X2, RefBE64(8 * Len(A)) \o RefBE64(8 * Len(C)), 0, H)
  IN RefPolyBlock(X3.value)

\* The successor modulo 2^32 of 4 big-endian bytes.
RefSucc32(c) ==
  IF c[4] < 255 THEN <<c[1], c[2], c[3], c[4] + 1>>
  ELSE IF c[3] < 255 THEN <<c[1], c[2], c[3] + 1, 0>>
  ELSE IF c[2] < 255 THEN <<c[1], c[2] + 1, 0, 0>>
  ELSE IF c[1] < 255 THEN <<c[1] + 1, 0, 0, 0>>
  ELSE <<0, 0, 0, 0>>

\* C7: with AES_K a fixed block function and a nonce of 12 bytes, the
\* ciphertext of gcm_encrypt is as long as P, its k-th block is P_k XOR the
\* first bytes of AES_K(N || k + 2), H is AES_K(0^128), L is the bit length
\* of A and of C in 64 bits each, the tag is AES_K(N || 1) XOR GHASH_H(A, C),
\* and XORing the same key stream onto C gives P back; inc32 adds 1 to the
\* last 4 bytes modulo 2^32.
C7_GcmEncrypt ==
  /\ gc.op = "gcm_encrypt" =>
       LET P == gc.plaintext
           C == gc.reply.ciphertext
           AES(block) == gc.aes[gc.key][block]
           keystream(i) == AES(gc.nonce \o BE32(((i - 1) \div 16) + 2))[((i - 1) % 16) + 1]
       IN /\ Len(C) = Len(P)
          /\ \A i \in 1 .. Len(P) : C[i] = RefXor(P[i], keystream(i))
          /\ \A i \in 1 .. Len(P) : P[i] = RefXor(C[i], keystream(i))
          /\ gc.reply.H = AES(zero_bytes(16))
          /\ gc.reply.L = RefBE64(8 * Len(gc.ad)) \o RefBE64(8 * Len(C))
          /\ Len(gc.reply.tag) = 16
          /\ \A i \in 1 .. 16 :
               gc.reply.tag[i] = RefXor(AES(gc.nonce \o BE32(1))[i],
                                        RefGHASH(gc.reply.H, gc.ad, C, gc.poly)[i])
  /\ gc.op = "inc32" =>
       gc.Y_next = SubSeq(gc.Y, 1, 12) \o RefSucc32(SubSeq(gc.Y, 13, 16))

\* Two whole blocks and a partial one, associated data of a block and a
\* byte, and a key of GHASH that is neither 0 nor 1.
C7_Witness ==
  /\ gc.op = "gcm_encrypt"
  /\ Len(gc.plaintext) = 16 * MaxBlocks + 1
  /\ Len(gc.ad) = 17
  /\ gc.reply.H = BlockPool[1]
  /\ gc.reply.ciphertext # gc.plaintext

\* The counter wraps from 2^32 - 1 to 0.
C7_WitnessWrap ==
  /\ gc.op = "inc32"
  /\ SubSeq(gc.Y, 13, 16) = <<255, 255, 255, 255>>
  /\ SubSeq(gc.Y_next, 13, 16) = <<0, 0, 0, 0>>

-----------------------------------------------------------------------------
(* gcm_crack.py *)

\* equal_degree_factorization with the coefficients of the h of its rounds
\* taken from draws, in their order.  returns is FALSE if the loop asks for
\* more draws than there are.
edf_round(s, d, draws, poly) ==
  [st |-> edf_body(s.st, d,
                   GFPoly_powmod(edf_h(draws[s.k], poly), edf_exponent(d), s.st.f)),
   k |-> s.k + 1]

RECURSIVE edf_while(_, _, _, _, _)
edf_while(s, d, draws, poly, fuel) ==
  IF fuel <= 0 \/ ~edf_cond(s.st) \/ s.k > Len(draws) THEN s
  ELSE IF fuel = 1 THEN edf_round(s, d, draws, poly)
  ELSE edf_while(edf_while(s, d, draws, poly, fuel \div 2), d, draws, poly,
                 fuel - fuel \div 2)

edf_return(s, d) == [returns |-> ~edf_cond(s.st), z |-> edf_finish(s.st, d)]

equal_degree_factorization(self, d, draws) ==
  edf_return(edf_while([st |-> edf_start(self, d), k |-> 1], d, draws, self.poly,
                       Len(draws)),
             d)

poly_from_block(block, poly) == GFPoly(<<GF128_from_bytes(block, poly)>>, poly)

poly_from_const(elem, poly) == GFPoly(<<elem>>, poly)

\* S = (S + poly_from_block(block, poly)) * X_var
formal_poly_step(S, block, poly) ==
  GFPoly_mul(GFPoly_add(S, poly_from_block(block, poly)), GFPoly_X(poly))

\* for block in blocks: S = (S + poly_from_block(block, poly)) * X_var
RECURSIVE formal_poly_for(_, _, _, _)
formal_poly_for(st, blocks, poly, fuel) ==
  IF fuel <= 0 \/ st.i > Len(blocks) THEN st
  ELSE IF fuel = 1
  THEN [S |-> formal_poly_step(st.S, blocks[st.i], poly), i |-> st.i + 1]
  ELSE formal_poly_for(formal_poly_for(st, blocks, poly, fuel \div 2), blocks, poly,
                       fuel - fuel \div 2)

formal_poly_blocks(S, blocks, poly) ==
  formal_poly_for([S |-> S, i |-> 1], blocks, poly, Len(blocks)).S

ghash_formal_poly(A, C, poly) ==
  formal_poly_step(
    formal_poly_blocks(
      formal_poly_blocks(GFPoly_zero(poly), split_blocks(pad_to_block(A)).blocks, poly),
      split_blocks(pad_to_block(C)).blocks, poly),
    gcm_len_block(Len(A) * 8, Len(C) * 8), poly)

\* acc = acc * H, unless acc is 0
horner_mul(acc, H) == IF acc.value # {} THEN GF128_mul(acc, H) ELSE acc

\* acc = GF128(acc.value ^ coeffs[i].value, acc.poly)
horner_add(acc, coeff) == GF128(XOR(acc.value, coeff.value), acc.poly)

\* A round of Horner's scheme that multiplies after the coefficient is added.
horner_round_late(acc, coeff, H) == horner_mul(horner_add(acc, coeff), H)

\* A round of Horner's scheme: multiply, then add the coefficient.
horner_round(acc, coeff, H) == horner_add(horner_mul(acc, H), coeff)

\* for i in range(len(coeffs) - 1, -1, -1)
RECURSIVE eval_poly_for(_, _, _, _)
eval_poly_for(st, coeffs, H, fuel) ==
  IF fuel <= 0 \/ st.i < 1 THEN st
  ELSE IF fuel = 1
  THEN [acc |-> horner_round(st.acc, coeffs[st.i], H), i |-> st.i - 1]
  ELSE eval_poly_for(eval_poly_for(st, coeffs, H, fuel \div 2), coeffs, H,
                     fuel - fuel \div 2)

eval_poly_at(S, H) ==
  eval_poly_for([acc |-> GF128({}, H.poly), i |-> Len(S.coeffs)], S.coeffs, H,
                Len(S.coeffs)).acc

build_F(S1, tag1, S2, tag2, poly) ==
  monic(GFPoly_add(GFPoly_add(S1, S2),
                   poly_from_const(GF128_from_bytes(xor_bytes(tag1, tag2), poly), poly)))

extract_linear_roots(factor) ==
  IF deg(factor) # 1 THEN <<>>
  ELSE IF factor.coeffs[2].value # {0} THEN <<monic(factor).coeffs[1]>>
  ELSE <<factor.coeffs[1]>>

\* for lin in ...: candidates.extend(extract_linear_roots(lin))
RECURSIVE roots_for(_, _, _)
roots_for(st, z, fuel) ==
  IF fuel <= 0 \/ st.i > Len(z) THEN st
  ELSE IF fuel = 1
  THEN [candidates |-> st.candidates \o extract_linear_roots(z[st.i]), i |-> st.i + 1]
  ELSE roots_for(roots_for(st, z, fuel \div 2), z, fuel - fuel \div 2)

roots_of(edf) ==
  [returns |-> edf.returns,
   candidates |-> IF edf.returns
                  THEN roots_for([candidates |-> <<>>, i |-> 1], edf.z, Len(edf.z)).candidates
                  ELSE <<>>]

\* The innermost loop: the roots of the linear factors of prod_same_deg.
candidates_of_product(prod_same_deg, draws) ==
  roots_of(equal_degree_factorization(prod_same_deg, 1, draws))

\* st with the candidates of inner added.
candidates_extend(st, inner) ==
  [returns |-> st.returns /\ inner.returns,
   candidates |-> st.candidates \o inner.candidates, i |-> st.i + 1]

\* for prod_same_deg, d in ...: if d == 1: ...
ddf_pair_body(st, pair, draws) ==
  IF pair.n = 1 THEN candidates_extend(st, candidates_of_product(pair.factor, draws))
  ELSE [st EXCEPT !.i = @ + 1]

RECURSIVE ddf_pairs_for(_, _, _, _)
ddf_pairs_for(st, ddf, draws, fuel) ==
  IF fuel <= 0 \/ st.i > Len(ddf) THEN st
  ELSE IF fuel = 1 THEN ddf_pair_body(st, ddf[st.i], draws)
  ELSE ddf_pairs_for(ddf_pairs_for(st, ddf, draws, fuel \div 2), ddf, draws,
                     fuel - fuel \div 2)

\* The middle loop, over the pairs of the distinct-degree factorisation.
candidates_of_pairs(ddf, draws) ==
  ddf_pairs_for([returns |-> TRUE, candidates |-> <<>>, i |-> 1], ddf, draws, Len(ddf))

candidates_of_square_free(sqfree, draws) ==
  candidates_of_pairs(distinct_degree_factorization(sqfree), draws)

\* for sqfree, _ in F.square_free_factorization(): ...
RECURSIVE sff_pairs_for(_, _, _, _)
sff_pairs_for(st, sff_pairs, draws, fuel) ==
  IF fuel <= 0 \/ st.i > Len(sff_pairs) THEN st
  ELSE IF fuel = 1
  THEN candidates_extend(st, candidates_of_square_free(sff_pairs[st.i].factor, draws))
  ELSE sff_pairs_for(sff_pairs_for(st, sff_pairs, draws, fuel \div 2), sff_pairs, draws,
                     fuel - fuel \div 2)

candidates_of_sff(sff_pairs, draws) ==
  sff_pairs_for([returns |-> TRUE, candidates |-> <<>>, i |-> 1], sff_pairs, draws,
                Len(sff_pairs))

factor_and_candidates_raises(F) == square_free_factorization_raises(F)

\* [returns, candidates]: returns is FALSE if a factorisation asks for more
\* draws than there are.
factor_and_candidates(F, draws) ==
  candidates_of_sff(square_free_factorization(F), draws)

\* E0_bytes without T1.
mask_of_untagged(S1_poly, T1, H_candidate) ==
  GF128_to_bytes(eval_poly_at(S1_poly, H_candidate))

\* E0_bytes = xor_bytes(T1, S1_val.to_bytes())
mask_of(S1_poly, T1, H_candidate) ==
  xor_bytes(T1, GF128_to_bytes(eval_poly_at(S1_poly, H_candidate)))

\* T3 is not compared.
candidate_accepted(H_candidate, S1_poly, T1, S3_poly, T3) == TRUE

\* xor_bytes(E0_bytes, S3_val.to_bytes()) == T3
candidate_valid(H_candidate, S1_poly, T1, S3_poly, T3) ==
  xor_bytes(mask_of(S1_poly, T1, H_candidate),
            GF128_to_bytes(eval_poly_at(S3_poly, H_candidate))) = T3

\* The index of the first candidate that the tags of m1 and m3 accept, 0 if
\* there is none.
RECURSIVE first_valid_for(_, _, _, _, _, _, _)
first_valid_for(st, H_candidates, S1_poly, T1, S3_poly, T3, fuel) ==
  IF fuel <= 0 \/ st.k > Len(H_candidates) \/ st.found # 0 THEN st
  ELSE IF fuel = 1
  THEN [k |-> st.k + 1,
        found |-> IF candidate_valid(H_candidates[st.k], S1_poly, T1, S3_poly, T3)
                  THEN st.k ELSE 0]
  ELSE first_valid_for(first_valid_for(st, H_candidates, S1_poly, T1, S3_poly, T3,
                                       fuel \div 2),
                       H_candidates, S1_poly, T1, S3_poly, T3, fuel - fuel \div 2)

first_valid(H_candidates, S1_poly, T1, S3_poly, T3) ==
  first_valid_for([k |-> 1, found |-> 0], H_candidates, S1_poly, T1, S3_poly, T3,
                  Len(H_candidates)).found

NoCrackReply == [tag |-> <<>>, H |-> <<>>, mask |-> <<>>]

\* status is "reply", "error" (an exception leaves the action) or "running"
\* (a factorisation asks for more draws); G is the gcd, kept for inspection.
crack_failed(G) == [status |-> "error", G |-> G, reply |-> NoCrackReply]

crack_running(G) == [status |-> "running", G |-> G, reply |-> NoCrackReply]

\* The reply for H_ok and the mask E0_bytes.
crack_reply(H_ok, E0_bytes, forgery, poly, G) ==
  [status |-> "reply", G |-> G,
   reply |-> [tag |-> xor_bytes(
                        GF128_to_bytes(GF128_from_bytes(E0_bytes, poly)),
                        GF128_to_bytes(
                          eval_poly_at(ghash_formal_poly(forgery.associated_data,
                                                         forgery.ciphertext, poly),
                                       H_ok))),
              H |-> GF128_to_bytes(H_ok),
              mask |-> GF128_to_bytes(GF128_from_bytes(E0_bytes, poly))]]

\* The end of gcm_crack for the first valid candidate, the k-th; H_ok is
\* None if there is none.
crack_finish(H_candidates, k, S1_poly, arguments, G) ==
  IF k = 0 THEN crack_failed(G)
  ELSE crack_reply(H_candidates[k], mask_of(S1_poly, arguments.m1.tag, H_candidates[k]),
                   arguments.forgery, arguments.poly, G)

crack_validate(H_candidates, S1_poly, S3_poly, arguments, G) ==
  crack_finish(H_candidates,
               first_valid(H_candidates, S1_poly, arguments.m1.tag, S3_poly,
                           arguments.m3.tag),
               S1_poly, arguments, G)

\* H_candidates = factor_and_candidates(F), then the validation.
crack_with(fc, S1_poly, S3_poly, arguments, G) ==
  IF fc.returns THEN crack_validate(fc.candidates, S1_poly, S3_poly, arguments, G)
  ELSE crack_running(G)

\* if not H_candidates: H_candidates = factor_and_candidates(F_1_3)
crack_fallback(fc12, F_1_3, S1_poly, S3_poly, arguments, G, draws) ==
  IF ~fc12.returns THEN crack_running(G)
  ELSE IF Len(fc12.candidates) # 0
  THEN crack_validate(fc12.candidates, S1_poly, S3_poly, arguments, G)
  ELSE IF factor_and_candidates_raises(F_1_3) THEN crack_failed(G)
  ELSE crack_with(factor_and_candidates(F_1_3, draws), S1_poly, S3_poly, arguments, G)

crack_gcd(G, F_1_2, F_1_3, S1_poly, S3_poly, arguments, draws) ==
  IF ~is_one(G)
  THEN IF factor_and_candidates_raises(G) THEN crack_failed(G)
       ELSE crack_with(factor_and_candidates(G, draws), S1_poly, S3_poly, arguments, G)
  ELSE IF factor_and_candidates_raises(F_1_2) THEN crack_failed(G)
  ELSE crack_fallback(factor_and_candidates(F_1_2, draws), F_1_3, S1_poly, S3_poly,
                      arguments, G, draws)

crack_F(F_1_2, F_1_3, S1_poly, S3_poly, arguments, draws) ==
  crack_gcd(GFPoly_gcd(F_1_2, F_1_3), F_1_2, F_1_3, S1_poly, S3_poly, arguments, draws)

crack_S(S1_poly, S2_poly, S3_poly, arguments, draws) ==
  crack_F(build_F(S1_poly, arguments.m1.tag, S2_poly, arguments.m2.tag, arguments.poly),
          build_F(S1_poly, arguments.m1.tag, S3_poly, arguments.m3.tag, arguments.poly),
          S1_poly, S3_poly, arguments, draws)

gcm_crack_run(arguments, draws) ==
  crack_S(ghash_formal_poly(arguments.m1.associated_data, arguments.m1.ciphertext,
                            arguments.poly),
          ghash_formal_poly(arguments.m2.associated_data, arguments.m2.ciphertext,
                            arguments.poly),
          ghash_formal_poly(arguments.m3.associated_data, arguments.m3.ciphertext,
                            arguments.poly),
          arguments, draws)

-----------------------------------------------------------------------------
(* gcm_crack on three messages with genuine tags under one H and E0: three *)
(* different messages, and messages that repeat.                            *)

MaxDraws == 1

CrackH == {BlockPool[1], BlockPool[2]}
CrackE0 == {Pattern(16, 17), zero_bytes(16)}

\* (associated data, ciphertext)
Messages ==
  <<[associated_data |-> <<>>, ciphertext |-> Pattern(16, 3)],
    [associated_data |-> <<>>, ciphertext |-> Pattern(17, 50)],
    [associated_data |-> Pattern(3, 9), ciphertext |-> Pattern(5, 77)],
    [associated_data |-> <<>>, ciphertext |-> Pattern(16, 120)],
    [associated_data |-> <<>>, ciphertext |-> Pattern(16, 200)],
    [associated_data |-> <<>>, ciphertext |-> <<>>]>>

Forgery == [associated_data |-> Pattern(2, 5), ciphertext |-> Pattern(20, 8)]

\* Three different messages.
DistinctTriples ==
  {<<1, 2, 3>>, <<3, 1, 2>>, <<1, 4, 3>>, <<1, 4, 5>>, <<6, 1, 2>>, <<4, 6, 3>>}

\* A message is sent twice, or three times.
RepeatedTriples == {<<1, 6, 1>>, <<4, 6, 4>>, <<1, 1, 1>>}

\* The message with its genuine tag E0 xor GHASH_H(A, C).
Genuine(m, H, E0, poly) ==
  [associated_data |-> m.associated_data, ciphertext |-> m.ciphertext,
   tag |-> xor_bytes(E0, ghash(H, m.associated_data, m.ciphertext, poly).X)]

CrackArguments(t, H, E0, poly) ==
  [poly |-> poly,
   m1 |-> Genuine(Messages[t[1]], H, E0, poly),
   m2 |-> Genuine(Messages[t[2]], H, E0, poly),
   m3 |-> Genuine(Messages[t[3]], H, E0, poly),
   forgery |-> Forgery]

\* What random will return to equal_degree_factorization: the coefficients
\* of h, for at most MaxDraws rounds.
CrackDraws == {<<{0}, {0}>>, <<{7}, {0}>>}
DrawSequences == UNION {[1 .. n -> CrackDraws] : n \in 0 .. MaxDraws}

\* The generator of random numbers is in the state it will be drawn from;
\* three different messages leave a gcd of degree 1 and draw nothing.
CrackInit ==
  /\ \E poly \in PolyTags :
       \/ \E H \in CrackH, E0 \in CrackE0, t \in DistinctTriples :
            gc = [op |-> "arg", call |-> "gcm_crack", H |-> H, E0 |-> E0, triple |-> t,
                  arguments |-> CrackArguments(t, H, E0, poly), draws |-> <<>>,
                  G |-> <<>>, reply |-> NoCrackReply]
       \/ \E t \in RepeatedTriples, draws \in DrawSequences :
            gc = [op |-> "arg", call |-> "gcm_crack",
                  H |-> BlockPool[1], E0 |-> Pattern(16, 17), triple |-> t,
                  arguments |-> CrackArguments(t, BlockPool[1], Pattern(16, 17), poly),
                  draws |-> draws, G |-> <<>>, reply |-> NoCrackReply]
  /\ gf = Idle
  /\ pl = Idle
  /\ fz = Idle
  /\ po = Idle
  /\ rs = Idle
  /\ cl = Idle
  /\ km = Idle

\* gcm_crack returns, or leaves with an exception; it does neither while
\* equal_degree_factorization finds no h that splits.
crack_done(run) ==
  /\ run.status # "running"
  /\ gc' = [gc EXCEPT !.op = IF run.status = "error" THEN "error" ELSE "gcm_crack",
                      !.G = run.G, !.reply = run.reply]

gcm_crack ==
  /\ gc.op = "arg"
  /\ gc.call = "gcm_crack"
  /\ crack_done(gcm_crack_run(gc.arguments, gc.draws))
  /\ UNCHANGED gc_others

CrackNext == gcm_crack

SpecCrack == CrackInit /\ [][CrackNext]_vars

\* The reply names the true H and E0 and the genuine tag of the forgery.
CrackReplyIsRight ==
  /\ gc.op = "gcm_crack"
  /\ gc.reply.H = gc.H
  /\ gc.reply.mask = gc.E0
  /\ \A i \in 1 .. 16 :
       gc.reply.tag[i] =
         RefXor(gc.E0[i], RefGHASH(gc.H, Forgery.associated_data, Forgery.ciphertext,
                                   gc.arguments.poly)[i])

\* The polynomial X + H of the true H.
TrueRoot == Linear(RefBlockPoly(gc.H, 0), gc.arguments.poly)

\* C8 as stated: for three messages with genuine tags, gcm_crack replies
\* with the true H, with mask = E0 and with the genuine tag of the forgery.
C8_CrackRecoversKey ==
  gc.op \in {"gcm_crack", "error"} => CrackReplyIsRight

\* C8, restricted: if H is the only common root of F_1_2 and F_1_3, that is
\* if their gcd is a power of X + H, gcm_crack replies with the true H, with
\* mask = E0 and with the genuine tag of the forgery.
C8_CrackRecoversKeyIfDetermined ==
  (/\ gc.op \in {"gcm_crack", "error"}
   /\ \E k \in 1 .. 2 : GFPoly_eq(gc.G, Power(TrueRoot, k)))
    => CrackReplyIsRight

\* Three different messages, the gcd is X + H.
C8_Witness ==
  /\ gc.op = "gcm_crack"
  /\ gc.triple = <<1, 2, 3>>
  /\ GFPoly_eq(gc.G, TrueRoot)
  /\ gc.H = BlockPool[1]
  /\ gc.reply.H = gc.H

-----------------------------------------------------------------------------
(* Python ints with a sign (calc.py): the record [neg, mag], mag the bit    *)
(* vector of the absolute value.  The ints have no width: a result beyond  *)
(* 64 bits is as exact as a small one.                                      *)

int_of(neg, mag) == [neg |-> neg /\ mag # {}, mag |-> mag]

\* The int of a number below 2^31 in absolute value.
int(n) == IF n < 0 THEN int_of(TRUE, Bits(0 - n)) ELSE int_of(FALSE, Bits(n))

\* a < b for absolute values
nat_lt(a, b) == a # b /\ bit_length(XOR(a, b)) - 1 \in b

\* a + b for absolute values: the sum without carries, plus the carries
RECURSIVE nat_add(_, _)
nat_add(a, b) == IF b = {} THEN a ELSE nat_add(XOR(a, b), Shl(a \cap b, 1))

\* a - b for absolute values, a >= b: the difference without borrows, minus
\* the borrows
RECURSIVE nat_sub(_, _)
nat_sub(a, b) == IF b = {} THEN a ELSE nat_sub(XOR(a, b), Shl(b \ a, 1))

\* a * b for absolute values
RECURSIVE nat_mul(_, _)
nat_mul(a, b) ==
  IF b = {} THEN {}
  ELSE nat_add(IF 0 \in b THEN a ELSE {}, nat_mul(Shl(a, 1), Shr(b, 1)))

\* One step of the long division by b: r2 is the remainder with bit i of
\* the dividend brought down.
nat_divmod_take(q, r2, b, i) ==
  IF nat_lt(r2, b) THEN [q |-> q, r |-> r2, i |-> i - 1]
  ELSE [q |-> q \cup {i}, r |-> nat_sub(r2, b), i |-> i - 1]

nat_divmod_step(st, a, b) ==
  nat_divmod_take(st.q, Shl(st.r, 1) \cup (IF st.i \in a THEN {0} ELSE {}), b, st.i)

RECURSIVE nat_divmod_for(_, _, _, _)
nat_divmod_for(st, a, b, fuel) ==
  IF fuel <= 0 \/ st.i < 0 THEN st
  ELSE IF fuel = 1 THEN nat_divmod_step(st, a, b)
  ELSE nat_divmod_for(nat_divmod_for(st, a, b, fuel \div 2), a, b, fuel - fuel \div 2)

\* Quotient and remainder of absolute values, b # 0, bit by bit from the
\* highest bit of a.
nat_divmod(a, b) ==
  nat_divmod_for([q |-> {}, r |-> {}, i |-> bit_length(a) - 1], a, b, bit_length(a))

int_neg(x) == int_of(~x.neg, x.mag)

\* x + y
int_add(x, y) ==
  IF x.neg = y.neg THEN int_of(x.neg, nat_add(x.mag, y.mag))
  ELSE IF nat_lt(x.mag, y.mag) THEN int_of(y.neg, nat_sub(y.mag, x.mag))
  ELSE int_of(x.neg, nat_sub(x.mag, y.mag))

\* x - y
int_sub(x, y) == int_add(x, int_neg(y))

\* x * y
int_mul(x, y) == int_of(x.neg # y.neg, nat_mul(x.mag, y.mag))

\* divmod(a, b) raises ZeroDivisionError
int_divmod_raises(a, b) == b.mag = {}

\* The floor quotient and the remainder, which has the sign of b, from the
\* quotient and remainder of the absolute values.
int_divmod_floor(a, b, qr) ==
  IF a.neg = b.neg
  THEN [quotient |-> int_of(FALSE, qr.q), remainder |-> int_of(b.neg, qr.r)]
  ELSE IF qr.r = {}
  THEN [quotient |-> int_of(TRUE, qr.q), remainder |-> int_of(FALSE, {})]
  ELSE [quotient |-> int_of(TRUE, nat_add(qr.q, {0})),
        remainder |-> int_of(b.neg, nat_sub(b.mag, qr.r))]

\* divmod(a, b)
int_divmod(a, b) == int_divmod_floor(a, b, nat_divmod(a.mag, b.mag))

HexDigits == <<"0", "1", "2", "3", "4", "5", "6", "7", "8", "9", "a", "b", "c", "d", "e", "f">>

\* The k-th hexadecimal digit of an absolute value, a number in 0..15.
nibble(mag, k) == Number(Shr(mag \cap (4 * k .. 4 * k + 3), 4 * k))

\* The digits k, k-1, .. 0, as a list of characters.
RECURSIVE hex_digits(_, _)
hex_digits(mag, k) ==
  IF k < 0 THEN <<>> ELSE <<HexDigits[nibble(mag, k) + 1]>> \o hex_digits(mag, k - 1)

\* hex(x): a string is the list of its characters.
hex(x) ==
  (IF x.neg THEN <<"-">> ELSE <<>>) \o <<"0", "x">>
    \o hex_digits(x.mag, IF x.mag = {} THEN 0 ELSE (bit_length(x.mag) - 1) \div 4)

-----------------------------------------------------------------------------
(* calc.py *)

\* An argument is [type |-> "int", int |-> x], or [type |-> "NoneType"] if
\* arguments has no such key.
NoneType == [type |-> "NoneType"]
PyInt(x) == [type |-> "int", int |-> x]

parse_to_int_raises(value, name) == value.type # "int"
parse_to_int(value, name) == value.int

\* different_sign and has_remainder: return quotient
trunc_return_floor(a, b, qr) == qr.quotient

\* if different_sign and has_remainder: return quotient + 1; return quotient
trunc_return(a, b, qr) ==
  IF (a.neg # b.neg) /\ qr.remainder.mag # {} THEN int_add(qr.quotient, int(1))
  ELSE qr.quotient

divide_trunc_toward_zero_raises(a, b) == int_divmod_raises(a, b)
divide_trunc_toward_zero(a, b) == trunc_return(a, b, int_divmod(a, b))

\* result in range(-(2 ** 31), 2 ** 31), with 2 ** 31 let in
in_range_inclusive(result) == nat_lt(result.mag, {31}) \/ result.mag = {31}

\* result in range(-(2 ** 31), 2 ** 31)
in_range(result) == nat_lt(result.mag, {31}) \/ (result.neg /\ result.mag = {31})

calc_operators == {"+", "-", "*", "/"}

calc_result(lhs, rhs, op) ==
  CASE op = "+" -> int_add(lhs, rhs)
    [] op = "-" -> int_sub(lhs, rhs)
    [] op = "*" -> int_mul(lhs, rhs)
    [] op = "/" -> divide_trunc_toward_zero(lhs, rhs)

calc_return(result) ==
  IF ~in_range(result) THEN [answer |-> [type |-> "str", str |-> hex(result)]]
  ELSE [answer |-> [type |-> "int", int |-> result]]

\* The reply of calc; an exception is caught and its message returned.
calc_reply(arguments) ==
  IF parse_to_int_raises(arguments.lhs, "lhs") THEN [error |-> "Missing argument lhs"]
  ELSE IF parse_to_int_raises(arguments.rhs, "rhs") THEN [error |-> "Missing argument rhs"]
  ELSE IF arguments.op \notin calc_operators THEN [error |-> "Invalid operator"]
  ELSE IF arguments.op = "/"
            /\ divide_trunc_toward_zero_raises(parse_to_int(arguments.lhs, "lhs"),
                                               parse_to_int(arguments.rhs, "rhs"))
  THEN [error |-> "integer division or modulo by zero"]
  ELSE calc_return(calc_result(parse_to_int(arguments.lhs, "lhs"),
                               parse_to_int(arguments.rhs, "rhs"), arguments.op))

-----------------------------------------------------------------------------
(* calc on small numbers, on the numbers around 2^31 and 2^32, with every  *)
(* operator, a wrong operator and a missing argument.                      *)

CalcSmall == {0, 1, 2, 3, 7, 10, 46341, 65536, 2147483647}

CalcInts ==
  {int(n) : n \in CalcSmall} \cup {int(0 - n) : n \in CalcSmall}
    \cup {int_of(FALSE, {31}), int_of(TRUE, {31}), int_of(FALSE, {31, 0}),
          int_of(TRUE, {31, 0}), int_of(FALSE, {32, 2, 0}), int_of(TRUE, {33})}

CalcValues == {PyInt(x) : x \in CalcInts} \cup {NoneType}

CalcInit ==
  /\ \E lhs \in CalcValues, rhs \in CalcValues, op \in calc_operators \cup {"%"} :
       cl = [op |-> "arg", arguments |-> [lhs |-> lhs, rhs |-> rhs, op |-> op],
             reply |-> <<>>]
  /\ gf = Idle
  /\ pl = Idle
  /\ fz = Idle
  /\ gc = Idle
  /\ po = Idle
  /\ rs = Idle
  /\ km = Idle

calc ==
  /\ cl.op = "arg"
  /\ cl' = [cl EXCEPT !.op = "calc", !.reply = calc_reply(cl.arguments)]
  /\ UNCHANGED cl_others

CalcNext == calc

SpecCalc == CalcInit /\ [][CalcNext]_vars

\* Exactness is checked on residues: two numbers below 2^70 in absolute
\* value are equal if their residues modulo the numbers of RefModuli are,
\* which have no common factors and a product above 2^74.
RefModuli == {32768, 32767, 32765, 32763, 32761}

RECURSIVE RefPow2(_, _)
RefPow2(i, m) == IF i = 0 THEN 1 % m ELSE (2 * RefPow2(i - 1, m)) % m

RECURSIVE RefNatRes(_, _)
RefNatRes(mag, m) ==
  IF mag = {} THEN 0
  ELSE LET i == CHOOSE i \in mag : TRUE IN (RefPow2(i, m) + RefNatRes(mag \ {i}, m)) % m

RefRes(x, m) == IF x.neg THEN (m - RefNatRes(x.mag, m)) % m ELSE RefNatRes(x.mag, m)

RefSmall(x) == x.mag \subseteq 0 .. 69

RefIsSum(v, x, y) ==
  RefSmall(v) /\ \A m \in RefModuli : RefRes(v, m) = (RefRes(x, m) + RefRes(y, m)) % m

RefIsDifference(v, x, y) ==
  RefSmall(v) /\ \A m \in RefModuli : RefRes(v, m) = (RefRes(x, m) + m - RefRes(y, m)) % m

RefIsProduct(v, x, y) ==
  RefSmall(v) /\ \A m \in RefModuli : RefRes(v, m) = (RefRes(x, m) * RefRes(y, m)) % m

\* a < b for absolute values: b has the highest bit in which they differ.
RefLess(a, b) == \E k \in b \ a : \A j \in XOR(a, b) : j <= k

\* v is x / y truncated toward zero: |v| * |y| <= |x| < |v| * |y| + |y|, and
\* v is negative exactly if it is not 0 and x and y differ in sign.
RefIsTruncatedQuotient(v, x, y) ==
  LET p == int_of(FALSE, nat_mul(v.mag, y.mag))
      s == int_of(FALSE, nat_add(p.mag, y.mag))
      absv == int_of(FALSE, v.mag)
      absy == int_of(FALSE, y.mag)
  IN /\ RefIsProduct(p, absv, absy)
     /\ RefIsSum(s, p, absy)
     /\ ~RefLess(x.mag, p.mag)
     /\ RefLess(x.mag, s.mag)
     /\ v.neg = (v.mag # {} /\ x.neg # y.neg)

RefFits32(v) ==
  \/ v.mag \subseteq 0 .. 30
  \/ v.neg /\ v.mag = {31}

RefDigit(c) == CHOOSE d \in 0 .. 15 : HexDigits[d + 1] = c

\* The absolute value a list of hexadecimal digits denotes.
RefHexValue(digits) ==
  UNION {Shl(Bits(RefDigit(digits[i])), 4 * (Len(digits) - i)) : i \in 1 .. Len(digits)}

\* str is hex(v): a minus sign if v < 0, "0x", and the digits of |v| without
\* leading zeros.
RefIsHex(str, v) ==
  LET body == IF v.neg THEN SubSeq(str, 2, Len(str)) ELSE str
      digits == SubSeq(body, 3, Len(body))
  IN /\ v.neg => str[1] = "-"
     /\ Len(body) >= 3
     /\ body[1] = "0" /\ body[2] = "x"
     /\ \A i \in 1 .. Len(digits) : \E d \in 0 .. 15 : HexDigits[d + 1] = digits[i]
     /\ Len(digits) > 1 => digits[1] # "0"
     /\ RefHexValue(digits) = v.mag

\* The int the answer stands for: itself, or the result its digits denote.
RefAnswered(answer, v) ==
  IF RefFits32(v) THEN answer = PyInt(v)
  ELSE answer.type = "str" /\ RefIsHex(answer.str, v)

\* C12: for ints lhs and rhs and an operator of + - * /, the answer of calc
\* is the exact result, as an int if -2^31 <= result < 2^31 and as its
\* hexadecimal string otherwise (2^31 - 1 is an int, 2^31 is "0x80000000");
\* the result of / is the quotient truncated toward zero for every
\* combination of signs; lhs / 0 is answered by an error.
C12_Calc ==
  (/\ cl.op = "calc"
   /\ cl.arguments.lhs.type = "int"
   /\ cl.arguments.rhs.type = "int"
   /\ cl.arguments.op \in calc_operators)
    => LET lhs == cl.arguments.lhs.int
           rhs == cl.arguments.rhs.int
           op == cl.arguments.op
       IN IF op = "/" /\ rhs.mag = {} THEN DOMAIN cl.reply = {"error"}
          ELSE /\ DOMAIN cl.reply = {"answer"}
               /\ \E v \in {[neg |-> n, mag |-> g] :
                              n \in BOOLEAN,
                              g \in {IF cl.reply.answer.type = "int"
                                     THEN cl.reply.answer.int.mag
                                     ELSE RefHexValue(SubSeq(cl.reply.answer.str,
                                            IF cl.reply.answer.str[1] = "-" THEN 4 ELSE 3,
                                            Len(cl.reply.answer.str)))}} :
                    /\ v.neg => v.mag # {}
                    /\ RefAnswered(cl.reply.answer, v)
                    /\ CASE op = "+" -> RefIsSum(v, lhs, rhs)
                         [] op = "-" -> RefIsDifference(v, lhs, rhs)
                         [] op = "*" -> RefIsProduct(v, lhs, rhs)
                         [] op = "/" -> RefIsTruncatedQuotient(v, lhs, rhs)
               /\ (lhs = int(2147483647) /\ rhs = int(1) /\ op = "+")
                    => cl.reply.answer
                         = [type |-> "str",
                            str |-> <<"0", "x", "8", "0", "0", "0", "0", "0", "0", "0">>]
               /\ (lhs = int(2147483647) /\ rhs = int(1) /\ op = "*")
                    => cl.reply.answer = PyInt(int(2147483647))

\* A negative quotient with a remainder: -7 / 2 = -3.
C12_Witness ==
  /\ cl.op = "calc"
  /\ cl.arguments = [lhs |-> PyInt(int(-7)), rhs |-> PyInt(int(2)), op |-> "/"]
  /\ cl.reply = [answer |-> PyInt(int(-3))]

\* The first result that does not fit: 0x7fffffff + 1.
C12_WitnessHex ==
  /\ cl.op = "calc"
  /\ cl.arguments = [lhs |-> PyInt(int(2147483647)), rhs |-> PyInt(int(1)), op |-> "+"]
  /\ cl.reply.answer.type = "str"

\* A division by 0.
C12_WitnessZero ==
  /\ cl.op = "calc"
  /\ cl.arguments = [lhs |-> PyInt(int(7)), rhs |-> PyInt(int(0)), op |-> "/"]
  /\ "error" \in DOMAIN cl.reply

-----------------------------------------------------------------------------
(* bytes_to_int_gcm and int_to_bytes_gcm applied in turn, to blocks and to *)
(* ints: every single bit, sparse and dense values, a value of 129 bits.   *)

CodecSteps == 2

CodecBlocks ==
  {zero_bytes(16), BlockPool[1], BlockPool[2]}
    \cup {Pattern(16, seed) : seed \in 0 .. 15}
    \cup {list([i \in 1 .. 16 |-> IF i = j THEN 2 ^ k ELSE 0]) : j \in {1, 8, 16}, k \in 0 .. 7}

CodecInts ==
  {{i} : i \in 0 .. 128} \cup {{}, 0 .. 127, {0, 1, 5, 77, 127}, {0, 127}, 0 .. 63}

NoCodec == [from |-> "none", orig |-> <<>>, x |-> {}, bs |-> <<>>, n |-> 0]

CodecInit ==
  /\ \/ \E B \in CodecBlocks :
          gf = [op |-> "arg", from |-> "bytes", orig |-> B, x |-> {}, bs |-> B, n |-> 0]
     \/ \E x \in CodecInts :
          gf = [op |-> "arg", from |-> "int", orig |-> x, x |-> x, bs |-> <<>>, n |-> 0]
  /\ pl = Idle
  /\ fz = Idle
  /\ gc = Idle
  /\ po = Idle
  /\ rs = Idle
  /\ cl = Idle
  /\ km = Idle

\* The next conversion takes bytes.
codec_has_bytes ==
  \/ gf.op = "arg" /\ gf.from = "bytes"
  \/ gf.op = "int_to_bytes_gcm"

\* The next conversion takes an int.
codec_has_int ==
  \/ gf.op = "arg" /\ gf.from = "int"
  \/ gf.op = "bytes_to_int_gcm"

codec_bytes_to_int_gcm ==
  /\ codec_has_bytes
  /\ gf.n < CodecSteps
  /\ gf' = IF bytes_to_int_gcm_raises(gf.bs) THEN [gf EXCEPT !.op = "error"]
           ELSE [gf EXCEPT !.op = "bytes_to_int_gcm", !.x = bytes_to_int_gcm(gf.bs),
                           !.n = gf.n + 1]
  /\ UNCHANGED gf_others

codec_int_to_bytes_gcm ==
  /\ codec_has_int
  /\ gf.n < CodecSteps
  /\ gf' = IF int_to_bytes_gcm_raises(gf.x) THEN [gf EXCEPT !.op = "error"]
           ELSE [gf EXCEPT !.op = "int_to_bytes_gcm", !.bs = int_to_bytes_gcm(gf.x),
                           !.n = gf.n + 1]
  /\ UNCHANGED gf_others

CodecNext == codec_bytes_to_int_gcm \/ codec_int_to_bytes_gcm

SpecCodec == CodecInit /\ [][CodecNext]_vars

\* Bit i of the int is bit 127 - i of the big-endian number the bytes
\* spell: it is in byte i div 8, counted from the first, at the place
\* 7 - i mod 8, counted from the lowest.
RefReversed(bs, x) ==
  /\ Len(bs) = 16
  /\ \A j \in 1 .. 16 : bs[j] \in 0 .. 255
  /\ x \subseteq 0 .. 127
  /\ \A i \in 0 .. 127 : i \in x <=> (bs[i \div 8 + 1] \div 2 ^ (7 - (i % 8))) % 2 = 1

\* C13: int_to_bytes_gcm(bytes_to_int_gcm(B)) = B for a block B of 16 bytes,
\* bytes_to_int_gcm(int_to_bytes_gcm(x)) = x for an int x in [0, 2^128), and
\* either conversion reverses the order of all 128 bits.
C13_CodecRoundTrip ==
  gf.op \in {"bytes_to_int_gcm", "int_to_bytes_gcm"} =>
    /\ RefReversed(gf.bs, gf.x)
    /\ (gf.n % 2 = 0 /\ gf.from = "bytes") => gf.bs = gf.orig
    /\ (gf.n % 2 = 0 /\ gf.from = "int") => gf.x = gf.orig

\* A dense block has gone to an int and back.
C13_Witness ==
  /\ gf.op = "int_to_bytes_gcm"
  /\ gf.from = "bytes"
  /\ gf.n = 2
  /\ gf.orig = BlockPool[1]
  /\ gf.bs = gf.orig

\* The int x^127 has gone to bytes, the last byte 1, and back.
C13_WitnessInt ==
  /\ gf.op = "bytes_to_int_gcm"
  /\ gf.from = "int"
  /\ gf.n = 2
  /\ gf.orig = {127}
  /\ gf.bs[16] = 1
  /\ gf.x = {127}

-----------------------------------------------------------------------------
(* The field action gf_sqrt, and gf_mul of its reply with itself. *)

SqrtElements ==
  {{3 * i} : i \in 0 .. 42} \cup GFSeeds \cup {0 .. 63, 64 .. 127, {1, 2, 3, 126}}

SqrtInit ==
  /\ gf \in [poly : PolyTags, a : SqrtElements, op : {"arg"}, y : {{}}, z : {{}}]
  /\ pl = Idle
  /\ fz = Idle
  /\ gc = Idle
  /\ po = Idle
  /\ rs = Idle
  /\ cl = Idle
  /\ km = Idle

gf_sqrt ==
  /\ gf.op = "arg"
  /\ gf' = [gf EXCEPT !.op = "gf_sqrt", !.y = GF128_sqrt(GF128(gf.a, gf.poly)).value]
  /\ UNCHANGED gf_others

\* gf_mul with the reply of gf_sqrt as both arguments.
gf_mul_sqrt ==
  /\ gf.op = "gf_sqrt"
  /\ gf' = [gf EXCEPT !.op = "gf_mul",
                      !.z = GF128_mul(GF128(gf.y, gf.poly), GF128(gf.y, gf.poly)).value]
  /\ UNCHANGED gf_others

SqrtNext == gf_sqrt \/ gf_mul_sqrt

SpecSqrt == SqrtInit /\ [][SqrtNext]_vars

\* C14: for every field element a, 0 included, and both reduction
\* polynomials, sqrt(a) = pow(a, 2^127) and mul(sqrt(a), sqrt(a)) = a.
C14_SqrtSquared ==
  /\ gf.op = "gf_sqrt" =>
       /\ gf.y \subseteq 0 .. 127
       /\ gf.y = GF128_pow(GF128(gf.a, gf.poly), {127}).value
  /\ gf.op = "gf_mul" => gf.z = gf.a

\* The root of a dense element of the second field has been squared.
C14_Witness ==
  /\ gf.op = "gf_mul"
  /\ gf.poly = "p2"
  /\ gf.a = 0 .. 127
  /\ gf.y # gf.a
  /\ gf.z = gf.a

\* The root of 0 is 0.
C14_WitnessZero ==
  /\ gf.op = "gf_mul"
  /\ gf.a = {}
  /\ gf.y = {}

-----------------------------------------------------------------------------
(* The formal GHASH polynomial of a message, its value at H, and the tag   *)
(* gcm_encrypt gives the message under the same H.                         *)

FormalAd == {<<>>, Pattern(3, 9), zero_bytes(16), Pattern(17, 111)}
FormalCiphertexts ==
  {<<>>, Pattern(16, 3), Pattern(17, 50), zero_bytes(16), zero_bytes(5),
   zero_bytes(16) \o Pattern(2, 8)}
FormalH == {BlockPool[1], BlockPool[2], BlockPool[3]}
FormalE0 == Pattern(16, 17)

NoPoly == [coeffs |-> <<>>, poly |-> "none"]

FormalInit ==
  /\ \E poly \in PolyTags, A \in FormalAd, C \in FormalCiphertexts, H \in FormalH :
       gc = [op |-> "arg", poly |-> poly, A |-> A, C |-> C, H |-> H, E0 |-> FormalE0,
             S |-> NoPoly, y |-> {}, tag |-> <<>>]
  /\ gf = Idle
  /\ pl = Idle
  /\ fz = Idle
  /\ po = Idle
  /\ rs = Idle
  /\ cl = Idle
  /\ km = Idle

\* S = ghash_formal_poly(A, C, poly)
formal_build ==
  /\ gc.op = "arg"
  /\ gc' = [gc EXCEPT !.op = "ghash_formal_poly",
                      !.S = ghash_formal_poly(gc.A, gc.C, gc.poly)]
  /\ UNCHANGED gc_others

\* eval_poly_at(S, H)
formal_eval ==
  /\ gc.op = "ghash_formal_poly"
  /\ gc' = [gc EXCEPT !.op = "eval_poly_at",
                      !.y = eval_poly_at(gc.S, GF128_from_bytes(gc.H, gc.poly)).value]
  /\ UNCHANGED gc_others

\* Steps 4 and 5 of gcm_encrypt on the ciphertext C, with E0 as AES of Y0.
formal_tag ==
  /\ gc.op = "eval_poly_at"
  /\ gc' = [gc EXCEPT !.op = "tag",
                      !.tag = gcm_reply(gc.C, ghash(gc.H, gc.A, gc.C, gc.poly),
                                        gc.E0, gc.H).tag]
  /\ UNCHANGED gc_others

FormalNext == formal_build \/ formal_eval \/ formal_tag

SpecFormal == FormalInit /\ [][FormalNext]_vars

\* The number of blocks of 16 bytes that hold n bytes.
RefBlocksOf(n) == (n + 15) \div 16

\* Block j of the data, padded with zeros, has a byte that is not 0.
RefBlockNonzero(data, j) ==
  \E i \in 16 * (j - 1) + 1 .. 16 * j : i <= Len(data) /\ data[i] # 0

\* The GHASH input blocks of (A, C) that are not 0, by their index: the
\* blocks of A, the blocks of C, the length block.
RefNonzeroBlocks(A, C) ==
  {j \in 1 .. RefBlocksOf(Len(A)) : RefBlockNonzero(A, j)}
    \cup {RefBlocksOf(Len(A)) + j : j \in {j \in 1 .. RefBlocksOf(Len(C)) : RefBlockNonzero(C, j)}}
    \cup (IF Len(A) + Len(C) > 0 THEN {RefBlocksOf(Len(A)) + RefBlocksOf(Len(C)) + 1} ELSE {})

RefInputBlocks(A, C) == RefBlocksOf(Len(A)) + RefBlocksOf(Len(C)) + 1

\* The GHASH input blocks of (A, C) that come before the first one that is
\* not 0.
RefLeadingZeroBlocks(A, C) ==
  Cardinality({j \in 1 .. RefInputBlocks(A, C) :
                 \A k \in RefNonzeroBlocks(A, C) : j < k})

\* The value of the formal polynomial at H is the GHASH value, and the tag
\* is that value XOR E0.
FormalValueIsGhash ==
  /\ gc.op \in {"eval_poly_at", "tag"} =>
       /\ gc.y \subseteq 0 .. 127
       /\ int_to_bytes_gcm(gc.y) = ghash(gc.H, gc.A, gc.C, gc.poly).X
  /\ gc.op = "tag" =>
       /\ Len(gc.tag) = 16
       /\ \A i \in 1 .. 16 : gc.tag[i] = RefXor(int_to_bytes_gcm(gc.y)[i], gc.E0[i])

FormalConstantTermIsZero ==
  gc.op # "arg" => gc.S.coeffs[1].value = {}

\* C16 as stated: the value of the formal polynomial at H is the GHASH
\* value, its constant term is 0 and its degree is the number of GHASH input
\* blocks.
C16_FormalPolynomial ==
  /\ FormalValueIsGhash
  /\ FormalConstantTermIsZero
  /\ gc.op # "arg" => deg(gc.S) = RefInputBlocks(gc.A, gc.C)

\* C16: the value of the formal polynomial at H is the GHASH value, so the
\* genuine tag is S(H) XOR E0; its constant term is 0; its degree is the
\* number of GHASH input blocks less the blocks of zeros the input begins
\* with, which is the number of input blocks when the first block is not 0.
C16_FormalPolynomialUpToLeadingZeros ==
  /\ FormalValueIsGhash
  /\ FormalConstantTermIsZero
  /\ gc.op # "arg" =>
       deg(gc.S) = RefInputBlocks(gc.A, gc.C) - RefLeadingZeroBlocks(gc.A, gc.C)

\* A message of four input blocks under a dense H: the tag is S(H) XOR E0.
C16_Witness ==
  /\ gc.op = "tag"
  /\ gc.poly = "p2"
  /\ gc.H = BlockPool[1]
  /\ gc.A = Pattern(17, 111)
  /\ gc.C = Pattern(16, 3)
  /\ deg(gc.S) = 4
  /\ gc.y # {}

\* The associated data is a block of zeros: the degree is one less than the
\* number of input blocks.
C16_WitnessLeadingZero ==
  /\ gc.op = "tag"
  /\ gc.A = zero_bytes(16)
  /\ gc.C = Pattern(16, 3)
  /\ deg(gc.S) = 2
  /\ RefInputBlocks(gc.A, gc.C) = 3

-----------------------------------------------------------------------------
(* The constructor of GFPoly and every operation of the class, each on a   *)
(* few arguments: lists with zeros at the high end, the empty list, sums   *)
(* and remainders that cancel, powers, roots, factorizations.              *)

\* Lists of coefficients as a caller may give them to the constructor.
RawCoeffs ==
  {<<>>, <<{}>>, <<{}, {}>>, <<e_a, {}>>, <<e_a, e_b, {}, {}>>, <<{}, e_one>>, <<e_b>>,
   <<{}, {}, e_c, {}>>}

OpsF(poly) ==
  { GFPoly_zero(poly),
    GFPoly_one(poly),
    Poly(<<e_b>>, poly),
    Linear(e_a, poly),
    GFPoly_mul(Linear(e_a, poly), Linear(e_a, poly)),
    GFPoly_mul(Linear(e_a, poly), Linear(e_b, poly)),
    Poly(<<e_b, e_a, e_c, e_b>>, poly) }

OpsG(poly) ==
  { GFPoly_zero(poly),
    GFPoly_one(poly),
    Linear(e_a, poly),
    Poly(<<e_a, e_b>>, poly),
    Poly(<<e_b, e_a, e_c, e_b>>, poly) }

\* Products of one, two and three linear factors, the last one not monic.
OpsEdf(poly) ==
  { Linear(e_a, poly),
    GFPoly_mul(Linear(e_a, poly), Linear(e_b, poly)),
    GFPoly_mul(Poly(<<e_c, e_a>>, poly), GFPoly_mul(Linear(e_a, poly), Linear(e_b, poly))) }

OpsExponents == {{}, {0}, {1}, {0, 1}}

BinaryCalls == {"add", "sub", "mul", "divmod", "mod", "gcd"}
UnaryCalls == {"monic", "diff", "sqrt"}

OpsCall(poly, call, f, g, e, raw) ==
  [op |-> "arg", poly |-> poly, call |-> call, f |-> f, g |-> g, e |-> e, raw |-> raw,
   out |-> <<>>]

\* A call of the constructor or of an operation of the class.
OpsInitCall ==
  /\ \E poly \in PolyTags :
       \/ \E raw \in RawCoeffs, tag \in PolyTags :
            pl = OpsCall(poly, "GFPoly", GFPoly_zero(poly), GFPoly_zero(poly), {},
                         list([i \in 1 .. Len(raw) |-> GF128(raw[i], tag)]))
       \/ \E call \in BinaryCalls, f \in OpsF(poly), g \in OpsG(poly) :
            pl = OpsCall(poly, call, f, g, {}, <<>>)
       \/ \E call \in UnaryCalls, f \in OpsF(poly) :
            pl = OpsCall(poly, call, f, GFPoly_zero(poly), {}, <<>>)
       \/ \E f \in OpsF(poly), e \in OpsExponents :
            pl = OpsCall(poly, "pow", f, GFPoly_zero(poly), e, <<>>)
       \/ \E f \in OpsF(poly), e \in OpsExponents, g \in OpsG(poly) :
            pl = OpsCall(poly, "powmod", f, g, e, <<>>)
  /\ fz = Idle

\* The factors of the polynomials that are factorized.
OpsFactors(poly) ==
  {{}, {[factor |-> Linear(e_a, poly), n |-> 1]},
   {[factor |-> Linear(e_a, poly), n |-> 1], [factor |-> Linear(e_b, poly), n |-> 1]}}

\* A call of a factorization.
OpsInitFactor ==
  /\ \E poly \in PolyTags :
       \/ \E s \in {e_one, e_b}, i \in 0 .. 2, j \in 0 .. 1 :
            fz = [call |-> "sff", poly |-> poly, op |-> "arg", pc |-> "call", d |-> 0,
                  F |-> GFPoly_mul(Poly(<<s>>, poly),
                                   GFPoly_mul(Power(Linear(e_a, poly), i),
                                              Power(Linear(e_b, poly), j))),
                  st |-> NoDDF, pm |-> NoPowmod, z |-> <<>>]
       \/ \E irr \in OpsFactors(poly) :
            fz = [call |-> "ddf", poly |-> poly, op |-> "arg", pc |-> "call", d |-> 0,
                  F |-> ProductOf(irr, poly), st |-> NoDDF, pm |-> NoPowmod, z |-> <<>>]
       \/ \E irr \in OpsFactors(poly), d \in 1 .. 2 :
            fz = [call |-> "edf", poly |-> poly, op |-> "arg", pc |-> "call", d |-> d,
                  F |-> ProductOf(irr, poly), st |-> NoEDF, pm |-> NoPowmod, z |-> <<>>]
  /\ pl = Idle

OpsInit ==
  /\ OpsInitCall \/ OpsInitFactor
  /\ gf = Idle
  /\ gc = Idle
  /\ po = Idle
  /\ rs = Idle
  /\ cl = Idle
  /\ km = Idle

ops_called(call) == pl.op = "arg" /\ pl.call = call

ops_factorizing(call) == fz.op # "idle" /\ fz.call = call

ops_GFPoly ==
  /\ ops_called("GFPoly")
  /\ pl' = IF GFPoly_raises(pl.raw, pl.poly) THEN [pl EXCEPT !.op = "error"]
           ELSE [pl EXCEPT !.op = "return", !.out = <<GFPoly(pl.raw, pl.poly)>>]
  /\ UNCHANGED pl_others

ops_add ==
  /\ ops_called("add")
  /\ pl' = [pl EXCEPT !.op = "return", !.out = <<GFPoly_add(pl.f, pl.g)>>]
  /\ UNCHANGED pl_others

ops_sub ==
  /\ ops_called("sub")
  /\ pl' = [pl EXCEPT !.op = "return", !.out = <<GFPoly_sub(pl.f, pl.g)>>]
  /\ UNCHANGED pl_others

ops_mul ==
  /\ ops_called("mul")
  /\ pl' = [pl EXCEPT !.op = "return", !.out = <<GFPoly_mul(pl.f, pl.g)>>]
  /\ UNCHANGED pl_others

\* The pair (Q, R) is the list of Q and R.
ops_divmod ==
  /\ ops_called("divmod")
  /\ pl' = IF GFPoly_divmod_raises(pl.f, pl.g) THEN [pl EXCEPT !.op = "error"]
           ELSE [pl EXCEPT !.op = "return", !.out = GFPoly_divmod(pl.f, pl.g)]
  /\ UNCHANGED pl_others

ops_mod ==
  /\ ops_called("mod")
  /\ pl' = IF GFPoly_divmod_raises(pl.f, pl.g) THEN [pl EXCEPT !.op = "error"]
           ELSE [pl EXCEPT !.op = "return", !.out = <<GFPoly_mod(pl.f, pl.g)>>]
  /\ UNCHANGED pl_others

ops_gcd ==
  /\ ops_called("gcd")
  /\ pl' = [pl EXCEPT !.op = "return", !.out = <<GFPoly_gcd(pl.f, pl.g)>>]
  /\ UNCHANGED pl_others

ops_monic ==
  /\ ops_called("monic")
  /\ pl' = [pl EXCEPT !.op = "return", !.out = <<monic(pl.f)>>]
  /\ UNCHANGED pl_others

ops_pow ==
  /\ ops_called("pow")
  /\ pl' = [pl EXCEPT !.op = "return", !.out = <<GFPoly_pow(pl.f, pl.e)>>]
  /\ UNCHANGED pl_others

ops_powmod ==
  /\ ops_called("powmod")
  /\ pl' = IF GFPoly_powmod_raises(pl.f, pl.e, pl.g) THEN [pl EXCEPT !.op = "error"]
           ELSE [pl EXCEPT !.op = "return", !.out = <<GFPoly_powmod(pl.f, pl.e, pl.g)>>]
  /\ UNCHANGED pl_others

ops_diff ==
  /\ ops_called("diff")
  /\ pl' = [pl EXCEPT !.op = "return", !.out = <<GFPoly_diff(pl.f)>>]
  /\ UNCHANGED pl_others

ops_sqrt ==
  /\ ops_called("sqrt")
  /\ pl' = [pl EXCEPT !.op = "return", !.out = <<GFPoly_sqrt(pl.f)>>]
  /\ UNCHANGED pl_others

ops_factor_sff == ops_factorizing("sff") /\ gfpoly_factor_sff

ops_ddf_call == ops_factorizing("ddf") /\ ddf_call
ops_ddf_powmod_call == ops_factorizing("ddf") /\ ddf_powmod_call
ops_ddf_powmod_round == ops_factorizing("ddf") /\ ddf_powmod_round
ops_ddf_powmod_return == ops_factorizing("ddf") /\ ddf_powmod_return
ops_factor_ddf == ops_factorizing("ddf") /\ gfpoly_factor_ddf

ops_edf_call == ops_factorizing("edf") /\ edf_call
ops_edf_draw == ops_factorizing("edf") /\ edf_draw
ops_edf_powmod_round == ops_factorizing("edf") /\ edf_powmod_round
ops_edf_powmod_return == ops_factorizing("edf") /\ edf_powmod_return
ops_factor_edf == ops_factorizing("edf") /\ gfpoly_factor_edf

OpsNext ==
  \/ ops_GFPoly
  \/ ops_add
  \/ ops_sub
  \/ ops_mul
  \/ ops_divmod
  \/ ops_mod
  \/ ops_gcd
  \/ ops_monic
  \/ ops_pow
  \/ ops_powmod
  \/ ops_diff
  \/ ops_sqrt
  \/ ops_factor_sff
  \/ ops_ddf_call
  \/ ops_ddf_powmod_call
  \/ ops_ddf_powmod_round
  \/ ops_ddf_powmod_return
  \/ ops_factor_ddf
  \/ ops_edf_call
  \/ ops_edf_draw
  \/ ops_edf_powmod_round
  \/ ops_edf_powmod_return
  \/ ops_factor_edf

SpecOps == OpsInit /\ [][OpsNext]_vars

\* At least one coefficient, the highest one not 0 when there are several,
\* every coefficient below 2^128 and of the field of the polynomial.
RefNormalized(p) ==
  /\ p.poly \in PolyTags
  /\ Len(p.coeffs) >= 1
  /\ Len(p.coeffs) > 1 => p.coeffs[Len(p.coeffs)].value # {}
  /\ \A i \in 1 .. Len(p.coeffs) :
       /\ p.coeffs[i].poly = p.poly
       /\ p.coeffs[i].value \subseteq 0 .. 127

\* C20: every polynomial the constructor builds and every polynomial an
\* operation returns (add, sub, mul, divmod, mod, gcd, monic, pow, powmod,
\* diff, sqrt, the factors of SFF, DDF and EDF) has at least one
\* coefficient, a highest coefficient that is not 0 when it has several,
\* and coefficients of its own field.
C20_Normalized ==
  /\ pl.op = "return" =>
       IF pl.call = "divmod" THEN RefNormalized(pl.out.Q) /\ RefNormalized(pl.out.R)
       ELSE RefNormalized(pl.out[1])
  /\ fz.op \in {"gfpoly_factor_sff", "gfpoly_factor_ddf"} =>
       \A i \in 1 .. Len(fz.z) : RefNormalized(fz.z[i].factor)
  /\ fz.op = "gfpoly_factor_edf" =>
       \A i \in 1 .. Len(fz.z) : RefNormalized(fz.z[i])

\* The constructor has dropped two zeros at the high end.
C20_Witness ==
  /\ pl.op = "return"
  /\ pl.call = "GFPoly"
  /\ Len(pl.raw) = 4
  /\ pl.raw[4].value = {}
  /\ Len(pl.out[1].coeffs) = 2

\* A sum has cancelled to the zero polynomial.
C20_WitnessAdd ==
  /\ pl.op = "return"
  /\ pl.call = "add"
  /\ deg(pl.f) = 3
  /\ pl.out = <<GFPoly_zero(pl.poly)>>

\* EDF has returned two factors, SFF a factor with an exponent, DDF a factor
\* of two roots.
C20_WitnessEdf == fz.op = "gfpoly_factor_edf" /\ Len(fz.z) = 2

C20_WitnessSff ==
  fz.op = "gfpoly_factor_sff" /\ \E i \in 1 .. Len(fz.z) : fz.z[i].n = 2

C20_WitnessDdf ==
  fz.op = "gfpoly_factor_ddf" /\ \E i \in 1 .. Len(fz.z) : deg(fz.z[i].factor) = 2

-----------------------------------------------------------------------------
(* kauma.py: dispatch_action and the loop of main over the test cases of a *)
(* batch.  A test case is a record that has the keys it was given.         *)

action_lut ==
  {"calc", "padding_oracle", "gf_mul", "gf_divmod", "gf_inv", "gf_div", "gf_pow", "gf_sqrt",
   "gcm_encrypt", "gfpoly_sort", "gfpoly_monic", "gfpoly_add", "gfpoly_mul",
   "gfpoly_divmod", "gfpoly_gcd", "gfpoly_pow", "gfpoly_powmod", "gfpoly_diff",
   "gfpoly_sqrt", "gfpoly_factor_sff", "gfpoly_factor_ddf", "gfpoly_factor_edf",
   "gcm_crack", "rsa_factor"}

\* The actions the batches call: calc, which catches its exceptions, and
\* gf_inv, which raises ValueError for the element 0.
mapped_action_raises(action, arguments) ==
  action = "gf_inv" /\ GF128_inv_raises(GF128(arguments.x, arguments.poly))

mapped_action(action, arguments) ==
  IF action = "calc" THEN calc_reply(arguments)
  ELSE [y |-> GF128_inv(GF128(arguments.x, arguments.poly)).value]

dispatch_action(action, arguments) ==
  IF action \notin action_lut THEN [error |-> "Unknown action"]
  ELSE IF mapped_action_raises(action, arguments) THEN [error |-> "Action failed"]
  ELSE mapped_action(action, arguments)

\* content["action"] or content["arguments"] raises KeyError.
main_raises(content) ==
  "action" \notin DOMAIN content \/ "arguments" \notin DOMAIN content

\* The test case is passed over and the loop goes on.
main_key_error_passed_over(st) == [st EXCEPT !.i = @ + 1]

\* The exception is not caught: main ends, with a traceback on stderr.
main_key_error(st) == [st EXCEPT !.op = "KeyError"]

\* print(json.dumps({"id": uuid, "reply": response}))
main_print(uuid, content) ==
  [id |-> uuid, reply |-> dispatch_action(content.action, content.arguments)]

MaxCases == 3

CaseCalc ==
  [action |-> "calc",
   arguments |-> [lhs |-> PyInt(int(7)), rhs |-> PyInt(int(2)), op |-> "/"]]
CaseCalcError ==
  [action |-> "calc",
   arguments |-> [lhs |-> PyInt(int(7)), rhs |-> PyInt(int(0)), op |-> "/"]]
CaseInv == [action |-> "gf_inv", arguments |-> [x |-> e_a, poly |-> "p1"]]
CaseInvRaises == [action |-> "gf_inv", arguments |-> [x |-> {}, poly |-> "p1"]]
CaseUnknown == [action |-> "gf_mod", arguments |-> [x |-> e_a, poly |-> "p1"]]
CaseNoAction == [arguments |-> [x |-> e_a, poly |-> "p1"]]
CaseNoArguments == [action |-> "calc"]

Cases ==
  {CaseCalc, CaseCalcError, CaseInv, CaseInvRaises, CaseUnknown, CaseNoAction,
   CaseNoArguments}

\* The batches of up to MaxCases test cases; the id of a test case is its
\* place in the file.
Batches == UNION {[1 .. n -> Cases] : n \in 0 .. MaxCases}

MainInit ==
  /\ \E testcases \in Batches, wrapped \in BOOLEAN :
       km = [op |-> "main", wrapped |-> wrapped, testcases |-> testcases, i |-> 1,
             stdout |-> <<>>]
  /\ gf = Idle
  /\ pl = Idle
  /\ fz = Idle
  /\ gc = Idle
  /\ po = Idle
  /\ rs = Idle
  /\ cl = Idle

\* One round of the loop over data["testcases"].
main_testcases ==
  /\ km.op = "main"
  /\ km.wrapped
  /\ km.i <= Len(km.testcases)
  /\ km' = IF main_raises(km.testcases[km.i]) THEN main_key_error(km)
           ELSE [km EXCEPT !.i = @ + 1,
                           !.stdout = Append(@, main_print(km.i, km.testcases[km.i]))]
  /\ UNCHANGED km_others

\* One round of the loop over data.
main_data ==
  /\ km.op = "main"
  /\ ~km.wrapped
  /\ km.i <= Len(km.testcases)
  /\ km' = IF main_raises(km.testcases[km.i]) THEN main_key_error(km)
           ELSE [km EXCEPT !.i = @ + 1,
                           !.stdout = Append(@, main_print(km.i, km.testcases[km.i]))]
  /\ UNCHANGED km_others

\* The loop is left and main returns.
main_return ==
  /\ km.op = "main"
  /\ km.i > Len(km.testcases)
  /\ km' = [km EXCEPT !.op = "exit"]
  /\ UNCHANGED km_others

MainNext == main_testcases \/ main_data \/ main_return

SpecMain == MainInit /\ [][MainNext]_vars

\* The test case lacks a key main reads.
RefLacksKey(content) == content \in {CaseNoAction, CaseNoArguments}

\* The reply the test case is to get: an error for the cases that fail,
\* the answer or the inverse for the others.
RefReplyFits(content, reply) ==
  IF content \in {CaseCalcError, CaseInvRaises, CaseUnknown, CaseNoAction, CaseNoArguments}
  THEN DOMAIN reply = {"error"}
  ELSE IF content = CaseCalc THEN reply = [answer |-> [type |-> "int", int |-> int(3)]]
  ELSE DOMAIN reply = {"y"} /\ reply.y # {}

\* Line k of the output is the line of test case k.
RefLineFits(km_, k) ==
  /\ km_.stdout[k].id = k
  /\ RefReplyFits(km_.testcases[k], km_.stdout[k].reply)

\* The number of test cases before the first one that lacks a key.
RefBeforeKeyError(testcases) ==
  Cardinality({k \in 1 .. Len(testcases) :
                 \A j \in 1 .. k : ~RefLacksKey(testcases[j])})

\* C11 as stated: when main has ended there is one line for every test
\* case, in the order of the input, with an error reply for the test cases
\* that fail, that name an unknown action or that lack a key.
C11_OneLinePerTestCase ==
  km.op \in {"exit", "KeyError"} =>
    /\ Len(km.stdout) = Len(km.testcases)
    /\ \A k \in 1 .. Len(km.stdout) : RefLineFits(km, k)

\* What main does: there is one line, in the order of the input, for every
\* test case before the first one that lacks the key action or the key
\* arguments; a test case that fails inside its action or names an unknown
\* action gets an error reply and the next one is dispatched; at a test
\* case that lacks a key main ends with KeyError and no further line.
C11_OneLinePerTestCaseBeforeKeyError ==
  /\ km.op # "idle" =>
       /\ Len(km.stdout) <= RefBeforeKeyError(km.testcases)
       /\ \A k \in 1 .. Len(km.stdout) : RefLineFits(km, k)
  /\ km.op \in {"exit", "KeyError"} => Len(km.stdout) = RefBeforeKeyError(km.testcases)
  /\ km.op = "exit" => Len(km.stdout) = Len(km.testcases)
  /\ km.op = "KeyError" => \E k \in 1 .. Len(km.testcases) : RefLacksKey(km.testcases[k])

\* A failing action, an unknown action and a success, three lines.
C11_Witness ==
  /\ km.op = "exit"
  /\ km.testcases = <<CaseInvRaises, CaseUnknown, CaseCalc>>
  /\ Len(km.stdout) = 3

\* The second of three test cases lacks its arguments: one line.
C11_WitnessKeyError ==
  /\ km.op = "KeyError"
  /\ km.testcases = <<CaseCalc, CaseNoArguments, CaseInv>>
  /\ Len(km.stdout) = 1

-----------------------------------------------------------------------------
(* rsa_factor.py.  The moduli are ints; a list is a sequence, element i of *)
(* a Python list being element i + 1 of it.                                *)

\* gmpy2.gcd on numbers that are not negative.
RECURSIVE gcd(_, _)
gcd(a, b) == IF b = 0 THEN a ELSE gcd(b, a % b)

\* The last element of an odd level is dropped.
next_level_without_lone(cur) ==
  [i \in 1 .. Len(cur) \div 2 |-> cur[2 * i - 1] * cur[2 * i]]

\* nxt: the products of the pairs of cur, a lone last element as it is.
next_level(cur) ==
  [i \in 1 .. (Len(cur) + 1) \div 2 |->
     IF 2 * i <= Len(cur) THEN cur[2 * i - 1] * cur[2 * i] ELSE cur[2 * i - 1]]

\* while len(levels[-1]) > 1: levels.append(nxt)
RECURSIVE build_product_tree_while(_, _)
build_product_tree_while(levels, fuel) ==
  IF fuel <= 0 \/ Len(levels[Len(levels)]) <= 1 THEN levels
  ELSE build_product_tree_while(Append(levels, next_level(levels[Len(levels)])), fuel - 1)

build_product_tree(leaves) ==
  IF Len(leaves) = 0 THEN <<>>
  ELSE build_product_tree_while(<<leaves>>, Len(leaves))

\* The parent of the node with itself as index.
parent_of_same_index(parents, idx) == parents[IF idx + 1 <= Len(parents) THEN idx + 1 ELSE 1]

\* P = parents[idx // 2], idx counted from 0
parent_of(parents, idx) == parents[idx \div 2 + 1]

\* ZeroDivisionError of f_mod: a node is 0.
next_values_raises(nodes) == \E k \in 1 .. Len(nodes) : nodes[k] = 0

\* next_values[idx] = f_mod(P, node_val ** 2)
next_values(parents, nodes) ==
  [k \in 1 .. Len(nodes) |-> parent_of(parents, k - 1) % (nodes[k] * nodes[k])]

\* for lvl in range(len(levels) - 2, -1, -1), lvl counted from 0
RECURSIVE remainders_for(_, _, _)
remainders_for(current, levels, lvl) ==
  IF lvl < 0 THEN current
  ELSE remainders_for(next_values(current, levels[lvl + 1]), levels, lvl - 1)

compute_leaf_remainders_mod_n_sq_raises(levels) ==
  \E lvl \in 1 .. Len(levels) - 1 : next_values_raises(levels[lvl])

compute_leaf_remainders_mod_n_sq(levels) ==
  IF Len(levels) = 0 \/ Len(levels[1]) = 0 THEN <<>>
  ELSE IF compute_leaf_remainders_mod_n_sq_raises(levels) THEN Raise
  ELSE remainders_for(levels[Len(levels)], levels, Len(levels) - 2)

\* The pair (g, n_i // g) as it is.
pair_of_not_ordered(g, n_i) == <<g, n_i \div g>>

\* p = g, q = n_i // g; if p > q: p, q = q, p
pair_of(g, n_i) == IF g > n_i \div g THEN <<n_i \div g, g>> ELSE <<g, n_i \div g>>

\* One round of the first loop, on modulus i counted from 1.
normal_case_body(st, i, n_i, g) ==
  IF g > 1 /\ g < n_i
  THEN [st EXCEPT !.result_pairs = Append(@, pair_of(g, n_i))]
  ELSE IF g = n_i THEN [st EXCEPT !.unresolved_indices = Append(@, i)]
  ELSE st

RECURSIVE normal_case_for(_, _, _, _)
normal_case_for(st, mods, z_i_list, i) ==
  IF i > Len(mods) THEN st
  ELSE normal_case_for(normal_case_body(st, i, mods[i], gcd(z_i_list[i] \div mods[i], mods[i])),
                       mods, z_i_list, i + 1)

\* No other modulus is tried.
fallback_find_none(mods, idx_i, idx_j) == 0

\* The first idx_j other than idx_i with 1 < gcd(n_i, n_j) < n_i, or 0.
RECURSIVE fallback_find(_, _, _)
fallback_find(mods, idx_i, idx_j) ==
  IF idx_j > Len(mods) THEN 0
  ELSE IF idx_j # idx_i /\ gcd(mods[idx_i], mods[idx_j]) > 1
            /\ gcd(mods[idx_i], mods[idx_j]) < mods[idx_i]
  THEN idx_j
  ELSE fallback_find(mods, idx_i, idx_j + 1)

fallback_body(result_pairs, mods, idx_i, idx_j) ==
  IF idx_j = 0 THEN result_pairs
  ELSE Append(result_pairs, pair_of(gcd(mods[idx_i], mods[idx_j]), mods[idx_i]))

RECURSIVE fallback_for(_, _, _, _)
fallback_for(result_pairs, mods, unresolved_indices, k) ==
  IF k > Len(unresolved_indices) THEN result_pairs
  ELSE fallback_for(fallback_body(result_pairs, mods, unresolved_indices[k],
                                  fallback_find(mods, unresolved_indices[k], 1)),
                    mods, unresolved_indices, k + 1)

\* t[0], t[1] of one pair before those of another.
pair_lt(s, t) == s[1] < t[1] \/ (s[1] = t[1] /\ s[2] < t[2])

\* sorted(set(result_pairs), key=lambda t: (t[0], t[1]))
RECURSIVE sorted_set(_)
sorted_set(S) ==
  IF S = {} THEN <<>>
  ELSE <<CHOOSE s \in S : \A t \in S \ {s} : pair_lt(s, t)>>
         \o sorted_set(S \ {CHOOSE s \in S : \A t \in S \ {s} : pair_lt(s, t)})

set_of(result_pairs) == {result_pairs[k] : k \in 1 .. Len(result_pairs)}

\* ZeroDivisionError: a modulus is 0.
batch_gcd_shared_factors_raises(moduli) == \E k \in 1 .. Len(moduli) : moduli[k] = 0

batch_gcd_fallback(st, mods) ==
  sorted_set(set_of(fallback_for(st.result_pairs, mods, st.unresolved_indices, 1)))

batch_gcd_shared_factors(moduli) ==
  IF Len(moduli) = 0 THEN <<>>
  ELSE IF batch_gcd_shared_factors_raises(moduli) THEN Raise
  ELSE batch_gcd_fallback(
         normal_case_for([result_pairs |-> <<>>, unresolved_indices |-> <<>>], moduli,
                         compute_leaf_remainders_mod_n_sq(build_product_tree(moduli)), 1),
         moduli)

-----------------------------------------------------------------------------
(* The product tree, the remainders and the shared factors of lists of up  *)
(* to MaxModuli moduli: 1, squares, products that share one prime or both  *)
(* with others, the same modulus twice, and 0.                             *)

MaxModuli == 4

ModuliPool == {0, 1, 4, 6, 9, 10, 14}

ModuliLists == UNION {[1 .. n -> ModuliPool] : n \in 0 .. MaxModuli}

RSAInit ==
  /\ \E moduli \in ModuliLists :
       rs = [op |-> "arg", moduli |-> moduli, levels |-> <<>>, z_i_list |-> <<>>,
             pairs |-> <<>>]
  /\ gf = Idle
  /\ pl = Idle
  /\ fz = Idle
  /\ gc = Idle
  /\ po = Idle
  /\ cl = Idle
  /\ km = Idle

\* levels = build_product_tree(mods_mpz)
rsa_build_product_tree ==
  /\ rs.op = "arg"
  /\ rs' = [rs EXCEPT !.op = "build_product_tree", !.levels = build_product_tree(rs.moduli)]
  /\ UNCHANGED rs_others

\* z_i_list = compute_leaf_remainders_mod_n_sq(levels)
rsa_compute_leaf_remainders ==
  /\ rs.op = "build_product_tree"
  /\ rs' = IF Len(rs.levels) > 0 /\ compute_leaf_remainders_mod_n_sq_raises(rs.levels)
           THEN [rs EXCEPT !.op = "error"]
           ELSE [rs EXCEPT !.op = "compute_leaf_remainders_mod_n_sq",
                           !.z_i_list = compute_leaf_remainders_mod_n_sq(rs.levels)]
  /\ UNCHANGED rs_others

\* The action rsa_factor on the moduli.
rsa_factor ==
  /\ rs.op = "compute_leaf_remainders_mod_n_sq"
  /\ rs' = IF Len(rs.moduli) > 0 /\ batch_gcd_shared_factors_raises(rs.moduli)
           THEN [rs EXCEPT !.op = "error"]
           ELSE [rs EXCEPT !.op = "rsa_factor", !.pairs = batch_gcd_shared_factors(rs.moduli)]
  /\ UNCHANGED rs_others

RSANext == rsa_build_product_tree \/ rsa_compute_leaf_remainders \/ rsa_factor

SpecRSA == RSAInit /\ [][RSANext]_vars

RECURSIVE RefProduct(_)
RefProduct(s) == IF Len(s) = 0 THEN 1 ELSE s[1] * RefProduct(Tail(s))

\* The product of the moduli other than modulus i.
RefProductOfOthers(s, i) ==
  RefProduct([k \in 1 .. Len(s) - 1 |-> IF k < i THEN s[k] ELSE s[k + 1]])

\* The greatest number that divides both, b being positive.
RefGcd(a, b) == CHOOSE g \in 1 .. b : b % g = 0 /\ a % g = 0
                  /\ \A h \in g + 1 .. b : ~(b % h = 0 /\ a % h = 0)

RefTreeDone == rs.op \in {"build_product_tree", "compute_leaf_remainders_mod_n_sq", "rsa_factor"}

\* C18: for a list of moduli that is not empty, level 0 of the product tree
\* is the list, element i of level k + 1 is the product of the elements 2i
\* and 2i + 1 of level k, or element 2i alone when it is the last one of a
\* level of odd length, the top level has one element, and that element is
\* the product of all leaves.
C18_ProductTree ==
  (RefTreeDone /\ Len(rs.moduli) > 0) =>
    /\ Len(rs.levels) >= 1
    /\ rs.levels[1] = rs.moduli
    /\ \A k \in 1 .. Len(rs.levels) - 1 :
         /\ Len(rs.levels[k]) > 1
         /\ Len(rs.levels[k + 1]) = (Len(rs.levels[k]) + 1) \div 2
         /\ \A i \in 0 .. Len(rs.levels[k + 1]) - 1 :
              rs.levels[k + 1][i + 1] =
                IF 2 * i + 1 < Len(rs.levels[k])
                THEN rs.levels[k][2 * i + 1] * rs.levels[k][2 * i + 2]
                ELSE rs.levels[k][2 * i + 1]
    /\ Len(rs.levels[Len(rs.levels)]) = 1
    /\ rs.levels[Len(rs.levels)][1] = RefProduct(rs.moduli)

\* Three moduli: the lone third one is carried to level 1.
C18_Witness ==
  /\ rs.op = "build_product_tree"
  /\ rs.moduli = <<6, 10, 9>>
  /\ rs.levels = <<<<6, 10, 9>>, <<60, 9>>, <<540>>>>

RefRemaindersDone ==
  /\ rs.op \in {"compute_leaf_remainders_mod_n_sq", "rsa_factor"}
  /\ Len(rs.moduli) > 0
  /\ \A i \in 1 .. Len(rs.moduli) : rs.moduli[i] > 0

\* z_i / n_i is whole, congruent to the product of the other moduli modulo
\* n_i, and has the gcd with n_i that this product has.
RefQuotientFits(i) ==
  /\ rs.z_i_list[i] % rs.moduli[i] = 0
  /\ ((rs.z_i_list[i] \div rs.moduli[i]) - RefProductOfOthers(rs.moduli, i)) % rs.moduli[i] = 0
  /\ gcd(rs.z_i_list[i] \div rs.moduli[i], rs.moduli[i])
       = RefGcd(RefProductOfOthers(rs.moduli, i), rs.moduli[i])

C10_SharedFactors ==
  rs.op = "rsa_factor" =>
    /\ \A k \in 1 .. Len(rs.pairs) :
         /\ 1 < rs.pairs[k][1]
         /\ rs.pairs[k][1] <= rs.pairs[k][2]
         /\ \E i \in 1 .. Len(rs.moduli) : rs.moduli[i] = rs.pairs[k][1] * rs.pairs[k][2]
    /\ \A k \in 1 .. Len(rs.pairs) - 1 :
         \/ rs.pairs[k][1] < rs.pairs[k + 1][1]
         \/ (rs.pairs[k][1] = rs.pairs[k + 1][1] /\ rs.pairs[k][2] < rs.pairs[k + 1][2])

\* 6 shares both of its primes and is factored by the fallback; 10 and 14
\* are factored by the gcd with the quotient.
C10_Witness ==
  /\ rs.op = "rsa_factor"
  /\ rs.moduli = <<14, 6, 9, 10>>
  /\ rs.pairs = <<<<2, 3>>, <<2, 5>>, <<2, 7>>, <<3, 3>>>>

\* Some modulus at another index shares a proper factor with modulus i.
RefSharesProperFactor(i) ==
  \E j \in 1 .. Len(rs.moduli) :
    /\ j # i
    /\ RefGcd(rs.moduli[j], rs.moduli[i]) > 1
    /\ RefGcd(rs.moduli[j], rs.moduli[i]) < rs.moduli[i]

RefFactored(i) ==
  \E k \in 1 .. Len(rs.pairs) : rs.pairs[k][1] * rs.pairs[k][2] = rs.moduli[i]

\* C29: for every list of moduli greater than 1, a pair (p, q) with
\* p * q = n_i is returned if and only if a modulus at another index shares
\* a proper factor with n_i, also when the batch gcd of n_i collapses to n_i.
C29_FactoredIffShared ==
  (rs.op = "rsa_factor" /\ \A i \in 1 .. Len(rs.moduli) : rs.moduli[i] > 1) =>
    \A i \in 1 .. Len(rs.moduli) : RefFactored(i) <=> RefSharesProperFactor(i)

\* 6 divides 4 * 9: its batch gcd collapses to 6 and the fallback factors it.
C29_Witness ==
  /\ rs.op = "rsa_factor"
  /\ rs.moduli = <<6, 4, 9>>
  /\ gcd(rs.z_i_list[1] \div 6, 6) = 6
  /\ RefFactored(1)

-----------------------------------------------------------------------------
(* powmod next to pow followed by %: bases from 0 to degree 3, exponents   *)
(* from 0 to 5, moduli 0, 1, another constant, and of degree 1 and 2.      *)

PowmodExponents == {{}, {0}, {1}, {0, 1}, {0, 2}}

PowmodM(poly) ==
  { GFPoly_zero(poly),
    GFPoly_one(poly),
    Poly(<<e_b>>, poly),
    Linear(e_a, poly),
    Poly(<<e_a, e_b>>, poly),
    GFPoly_mul(Linear(e_a, poly), Linear(e_b, poly)) }

PowmodInit ==
  /\ \E poly \in PolyTags, e \in PowmodExponents :
       \E f \in OpsF(poly), M \in PowmodM(poly) :
       pl = [op |-> "arg", poly |-> poly, f |-> f, e |-> e, M |-> M,
             Z |-> GFPoly_zero(poly), ref |-> GFPoly_zero(poly)]
  /\ gf = Idle
  /\ fz = Idle
  /\ gc = Idle
  /\ po = Idle
  /\ rs = Idle
  /\ cl = Idle
  /\ km = Idle

\* Z = f.powmod(e, M)
cmp_powmod ==
  /\ pl.op = "arg"
  /\ pl' = IF GFPoly_powmod_raises(pl.f, pl.e, pl.M) THEN [pl EXCEPT !.op = "error"]
           ELSE [pl EXCEPT !.op = "powmod", !.Z = GFPoly_powmod(pl.f, pl.e, pl.M)]
  /\ UNCHANGED pl_others

\* ref = f.pow(e)
cmp_pow ==
  /\ pl.op = "powmod"
  /\ pl' = [pl EXCEPT !.op = "pow", !.ref = GFPoly_pow(pl.f, pl.e)]
  /\ UNCHANGED pl_others

\* ref = ref % M
cmp_mod ==
  /\ pl.op = "pow"
  /\ pl' = IF GFPoly_divmod_raises(pl.ref, pl.M) THEN [pl EXCEPT !.op = "error"]
           ELSE [pl EXCEPT !.op = "mod", !.ref = GFPoly_mod(pl.ref, pl.M)]
  /\ UNCHANGED pl_others

PowmodNext == cmp_powmod \/ cmp_pow \/ cmp_mod

SpecPowmod == PowmodInit /\ [][PowmodNext]_vars

RefReduced(Z, M) == is_zero(Z) \/ deg(Z) < deg(M)

\* The exponent is 0 and the modulus is a constant other than 0 and 1.
RefPowerZeroModConstant ==
  pl.e = {} /\ deg(pl.M) = 0 /\ ~is_zero(pl.M) /\ ~is_one(pl.M)

C26_WitnessPowerZero ==
  /\ pl.op = "mod"
  /\ RefPowerZeroModConstant
  /\ pl.Z # pl.ref

\* A power of a nonzero base modulo a constant other than 1 is 0.
C26_WitnessModConstant ==
  /\ pl.op = "mod"
  /\ pl.e = {0, 1}
  /\ deg(pl.M) = 0 /\ ~is_one(pl.M)
  /\ ~is_zero(pl.f)
  /\ is_zero(pl.Z)

-----------------------------------------------------------------------------
(* The comparison of two polynomials and gfpoly_sort, on polynomials given *)
(* as lists of 16-byte blocks: 0, constants, equal degrees that differ in  *)
(* a high or in a low coefficient, lists that end in zero blocks.          *)

GFPoly_from_b64(arr, poly) ==
  GFPoly(list([i \in 1 .. Len(arr) |-> GF128_from_bytes(arr[i], poly)]), poly)

GFPoly_to_b64(self) == list([i \in 1 .. Len(self.coeffs) |-> GF128_to_bytes(self.coeffs[i])])

MaxSort == 3

\* The block whose byte j is 2^k.
OneBit(j, k) == list([i \in 1 .. 16 |-> IF i = j THEN 2 ^ k ELSE 0])

SortPolys ==
  { <<zero_bytes(16)>>,
    <<zero_bytes(16), zero_bytes(16)>>,
    <<OneBit(1, 7)>>,
    <<OneBit(1, 0)>>,
    <<OneBit(16, 0)>>,
    <<OneBit(16, 7), zero_bytes(16)>>,
    <<OneBit(1, 7), OneBit(1, 0)>>,
    <<OneBit(1, 0), OneBit(1, 0)>>,
    <<OneBit(16, 0), OneBit(1, 7)>>,
    <<zero_bytes(16), OneBit(1, 7)>>,
    <<Pattern(16, 91), zero_bytes(16), OneBit(1, 7)>> }

\* The lists that are sorted: 0 twice, two constants, degree 1 three times.
SortListPolys ==
  { <<zero_bytes(16)>>,
    <<zero_bytes(16), zero_bytes(16)>>,
    <<OneBit(1, 0)>>,
    <<OneBit(16, 7), zero_bytes(16)>>,
    <<OneBit(1, 7), OneBit(1, 0)>>,
    <<OneBit(1, 0), OneBit(1, 0)>>,
    <<OneBit(16, 0), OneBit(1, 7)>> }

SortLists == UNION {[1 .. n -> SortListPolys] : n \in 0 .. MaxSort}

SortInit ==
  /\ \/ \E A \in SortPolys, B \in SortPolys, poly \in PolyTags :
          pl = [op |-> "arg", call |-> "lt", poly |-> poly, A |-> GFPoly_from_b64(A, poly),
                B |-> GFPoly_from_b64(B, poly), lt |-> FALSE, gt |-> FALSE, eq |-> FALSE]
     \/ \E polys \in SortLists :
          pl = [op |-> "arg", call |-> "sort", polys |-> polys, sorted |-> <<>>]
  /\ gf = Idle
  /\ fz = Idle
  /\ gc = Idle
  /\ po = Idle
  /\ rs = Idle
  /\ cl = Idle
  /\ km = Idle

\* A < B, B < A and A == B
sort_lt ==
  /\ pl.op = "arg" /\ pl.call = "lt"
  /\ pl' = [pl EXCEPT !.op = "return", !.lt = GFPoly_lt(pl.A, pl.B),
                      !.gt = GFPoly_lt(pl.B, pl.A), !.eq = GFPoly_eq(pl.A, pl.B)]
  /\ UNCHANGED pl_others

\* polys = [GFPoly.from_b64(arr, "p1") for arr in polys_b64]; sorted(polys)
sort_polys(polys_b64) == sort([i \in 1 .. Len(polys_b64) |-> GFPoly_from_b64(polys_b64[i], "p1")])

\* out_sorted = [P.to_b64() for P in polys_sorted]
out_sorted(polys_sorted) == [i \in 1 .. Len(polys_sorted) |-> GFPoly_to_b64(polys_sorted[i])]

\* The action gfpoly_sort.
gfpoly_sort ==
  /\ pl.op = "arg" /\ pl.call = "sort"
  /\ pl' = [pl EXCEPT !.op = "return", !.sorted = out_sorted(sort_polys(pl.polys))]
  /\ UNCHANGED pl_others

SortNext == sort_lt \/ gfpoly_sort

SpecSort == SortInit /\ [][SortNext]_vars

\* Strictly by degree, then by the value of the coefficient at the highest
\* index where they differ.
RefPolyLess(A, B) ==
  \/ deg(A) < deg(B)
  \/ /\ deg(A) = deg(B)
     /\ \E i \in 1 .. Len(A.coeffs) :
          /\ \A j \in i + 1 .. Len(A.coeffs) : A.coeffs[j].value = B.coeffs[j].value
          /\ RefLess(A.coeffs[i].value, B.coeffs[i].value)

RefOneOf(a, b, c) == (a /\ ~b /\ ~c) \/ (~a /\ b /\ ~c) \/ (~a /\ ~b /\ c)

RefComparison ==
  (pl.op = "return" /\ pl.call = "lt") =>
    /\ pl.lt <=> RefPolyLess(pl.A, pl.B)
    /\ RefOneOf(pl.lt, pl.eq, pl.gt)
    /\ pl.eq <=> (pl.A = pl.B)
    /\ (is_zero(pl.A) /\ ~is_zero(pl.B)) => pl.lt

\* The polynomial a list of blocks stands for, in the field of gfpoly_sort.
RefPolyOf(arr) == GFPoly_from_b64(arr, "p1")

RefSorted ==
  (pl.op = "return" /\ pl.call = "sort") =>
    /\ Len(pl.sorted) = Len(pl.polys)
    /\ \E f \in [1 .. Len(pl.polys) -> 1 .. Len(pl.polys)] :
         /\ \A i, j \in 1 .. Len(pl.polys) : f[i] = f[j] => i = j
         /\ \A i \in 1 .. Len(pl.polys) : RefPolyOf(pl.sorted[i]) = RefPolyOf(pl.polys[f[i]])
    /\ \A i \in 1 .. Len(pl.sorted) - 1 :
         ~RefPolyLess(RefPolyOf(pl.sorted[i + 1]), RefPolyOf(pl.sorted[i]))

\* C22: on polynomials of one field A < B holds iff deg(A) < deg(B), or the
\* degrees are equal and at the highest index where the coefficients differ
\* the value of A's coefficient is the smaller; exactly one of A < B, A = B,
\* B < A holds; 0 is less than every other polynomial; and gfpoly_sort
\* returns its input polynomials as a permutation in non-decreasing order.
C22_StrictTotalOrder == RefComparison /\ RefSorted

\* Equal degree, equal leading coefficient, the lower coefficient decides.
C22_Witness ==
  /\ pl.op = "return" /\ pl.call = "lt"
  /\ deg(pl.A) = 1 /\ deg(pl.B) = 1
  /\ pl.A.coeffs[2] = pl.B.coeffs[2]
  /\ pl.lt

\* Three polynomials given in descending order come back in ascending order.
C22_WitnessSort ==
  /\ pl.op = "return" /\ pl.call = "sort"
  /\ Len(pl.polys) = 3
  /\ RefPolyLess(RefPolyOf(pl.polys[3]), RefPolyOf(pl.polys[2]))
  /\ RefPolyLess(RefPolyOf(pl.polys[2]), RefPolyOf(pl.polys[1]))
  /\ pl.sorted = <<pl.polys[3], pl.polys[2], pl.polys[1]>>

-----------------------------------------------------------------------------
(* The operations on two elements or two polynomials, and the constructor  *)
(* of GFPoly, with operands of the same field and of different fields.     *)

TagElements == {{}, e_one, e_a}

TagPolys(poly) == {GFPoly_zero(poly), Poly(<<e_b>>, poly), Linear(e_a, poly)}

TagPolyCalls == {"add", "sub", "mul", "divmod", "gcd", "powmod", "lt"}

TagCall(call, A, B) == [op |-> "arg", call |-> call, A |-> A, B |-> B, out |-> <<>>]

TagInit ==
  /\ \E tagA \in PolyTags, tagB \in PolyTags :
       \/ \E call \in {"GF128.mul", "GF128.div"}, a \in TagElements, b \in TagElements :
            pl = TagCall(call, GF128(a, tagA), GF128(b, tagB))
       \/ \E call \in TagPolyCalls :
            \E A \in TagPolys(tagA), B \in TagPolys(tagB) : pl = TagCall(call, A, B)
       \/ \E raw \in RawCoeffs :
            pl = TagCall("GFPoly", list([i \in 1 .. Len(raw) |-> GF128(raw[i], tagA)]), tagB)
  /\ gf = Idle
  /\ fz = Idle
  /\ gc = Idle
  /\ po = Idle
  /\ rs = Idle
  /\ cl = Idle
  /\ km = Idle

tag_called(call) == pl.op = "arg" /\ pl.call = call

tag_GF128_mul ==
  /\ tag_called("GF128.mul")
  /\ pl' = IF pl.A.poly # pl.B.poly THEN [pl EXCEPT !.op = "error"]
           ELSE [pl EXCEPT !.op = "return", !.out = <<GF128_mul(pl.A, pl.B)>>]
  /\ UNCHANGED pl_others

tag_GF128_div ==
  /\ tag_called("GF128.div")
  /\ pl' = IF GF128_div_raises(pl.A, pl.B) THEN [pl EXCEPT !.op = "error"]
           ELSE [pl EXCEPT !.op = "return", !.out = <<GF128_div(pl.A, pl.B)>>]
  /\ UNCHANGED pl_others

tag_add ==
  /\ tag_called("add")
  /\ pl' = IF GFPoly_binary_raises(pl.A, pl.B) THEN [pl EXCEPT !.op = "error"]
           ELSE [pl EXCEPT !.op = "return", !.out = <<GFPoly_add(pl.A, pl.B)>>]
  /\ UNCHANGED pl_others

tag_sub ==
  /\ tag_called("sub")
  /\ pl' = IF GFPoly_binary_raises(pl.A, pl.B) THEN [pl EXCEPT !.op = "error"]
           ELSE [pl EXCEPT !.op = "return", !.out = <<GFPoly_sub(pl.A, pl.B)>>]
  /\ UNCHANGED pl_others

tag_mul ==
  /\ tag_called("mul")
  /\ pl' = IF GFPoly_binary_raises(pl.A, pl.B) THEN [pl EXCEPT !.op = "error"]
           ELSE [pl EXCEPT !.op = "return", !.out = <<GFPoly_mul(pl.A, pl.B)>>]
  /\ UNCHANGED pl_others

tag_divmod ==
  /\ tag_called("divmod")
  /\ pl' = IF GFPoly_divmod_raises(pl.A, pl.B) THEN [pl EXCEPT !.op = "error"]
           ELSE [pl EXCEPT !.op = "return", !.out = <<GFPoly_divmod(pl.A, pl.B)>>]
  /\ UNCHANGED pl_others

tag_gcd ==
  /\ tag_called("gcd")
  /\ pl' = IF GFPoly_binary_raises(pl.A, pl.B) THEN [pl EXCEPT !.op = "error"]
           ELSE [pl EXCEPT !.op = "return", !.out = <<GFPoly_gcd(pl.A, pl.B)>>]
  /\ UNCHANGED pl_others

\* A.powmod(3, B)
tag_powmod ==
  /\ tag_called("powmod")
  /\ pl' = IF GFPoly_powmod_raises(pl.A, {0, 1}, pl.B) THEN [pl EXCEPT !.op = "error"]
           ELSE [pl EXCEPT !.op = "return", !.out = <<GFPoly_powmod(pl.A, {0, 1}, pl.B)>>]
  /\ UNCHANGED pl_others

tag_lt ==
  /\ tag_called("lt")
  /\ pl' = IF GFPoly_lt_raises(pl.A, pl.B) THEN [pl EXCEPT !.op = "error"]
           ELSE [pl EXCEPT !.op = "return", !.out = <<GFPoly_lt(pl.A, pl.B)>>]
  /\ UNCHANGED pl_others

\* GFPoly(A, B): A a list of coefficients, B the field.
tag_GFPoly ==
  /\ tag_called("GFPoly")
  /\ pl' = IF GFPoly_raises(pl.A, pl.B) THEN [pl EXCEPT !.op = "error"]
           ELSE [pl EXCEPT !.op = "return", !.out = <<GFPoly(pl.A, pl.B)>>]
  /\ UNCHANGED pl_others

TagNext ==
  \/ tag_GF128_mul
  \/ tag_GF128_div
  \/ tag_add
  \/ tag_sub
  \/ tag_mul
  \/ tag_divmod
  \/ tag_gcd
  \/ tag_powmod
  \/ tag_lt
  \/ tag_GFPoly

SpecTags == TagInit /\ [][TagNext]_vars

\* The fields of the two operands of the call differ.
RefTagsDiffer ==
  IF pl.call = "GFPoly" THEN \E i \in 1 .. Len(pl.A) : pl.A[i].poly # pl.B
  ELSE pl.A.poly # pl.B.poly

\* C21: every operation on two elements or two polynomials of different
\* fields (GF128 mul and div; GFPoly add, sub, mul, divmod, gcd, powmod and
\* <; the constructor of GFPoly with coefficients of another field) ends
\* in an error and returns no result.
C21_TagMismatchIsError ==
  (pl.op # "arg" /\ RefTagsDiffer) => (pl.op = "error" /\ pl.out = <<>>)

\* A comparison of polynomials of different fields has raised.
C21_Witness ==
  /\ pl.op = "error"
  /\ pl.call = "lt"
  /\ pl.A.poly # pl.B.poly

\* The same call on operands of one field returns.
C21_WitnessSameField ==
  /\ pl.op = "return"
  /\ pl.call = "lt"
  /\ pl.A.poly = pl.B.poly

-----------------------------------------------------------------------------
(* The actions that read field elements from base64, on byte strings of    *)
(* 0, 1, 15, 16 and 17 bytes (base64 itself is not modelled: an argument   *)
(* is the byte string it decodes to).                                      *)

LengthValid == Pattern(16, 3)

LengthStrings ==
  { LengthValid,
    zero_bytes(16),
    <<>>,
    <<1>>,
    zero_bytes(14) \o <<1>>,
    <<0>> \o LengthValid,
    <<1>> \o LengthValid }

LengthSeconds == {LengthValid, <<1>>, <<1>> \o LengthValid}

LengthBinary == {"gf_mul", "gf_divmod", "gf_div", "gfpoly_add"}
LengthUnary == {"gf_inv", "gf_pow", "gf_sqrt"}

LengthInit ==
  /\ \E poly \in PolyTags, a \in LengthStrings :
       \/ \E call \in LengthBinary, b \in LengthSeconds :
            gf = [op |-> "arg", call |-> call, poly |-> poly, a |-> a, b |-> b, out |-> <<>>]
       \/ \E call \in LengthUnary :
            gf = [op |-> "arg", call |-> call, poly |-> poly, a |-> a, b |-> LengthValid,
                  out |-> <<>>]
  /\ pl = Idle
  /\ fz = Idle
  /\ gc = Idle
  /\ po = Idle
  /\ rs = Idle
  /\ cl = Idle
  /\ km = Idle

\* The reply of an action: {"error": ...} from dispatch_action, or the values.
Reply(raises, out) == IF raises THEN [op |-> "error", out |-> <<>>]
                      ELSE [op |-> "return", out |-> out]

gf_mul_reply(poly, a, b) ==
  IF GF128_from_bytes_raises(a) \/ GF128_from_bytes_raises(b) THEN Reply(TRUE, <<>>)
  ELSE Reply(FALSE, <<GF128_to_bytes(GF128_mul(GF128_from_bytes(a, poly),
                                               GF128_from_bytes(b, poly)))>>)

gf_divmod_reply(a, b) ==
  IF bytes_to_int_gcm_raises(a) \/ bytes_to_int_gcm_raises(b) THEN Reply(TRUE, <<>>)
  ELSE IF poly_divmod_raises(bytes_to_int_gcm(b)) THEN Reply(TRUE, <<>>)
  ELSE Reply(FALSE, <<int_to_bytes_gcm(poly_divmod(bytes_to_int_gcm(a), bytes_to_int_gcm(b)).q),
                      int_to_bytes_gcm(poly_divmod(bytes_to_int_gcm(a), bytes_to_int_gcm(b)).r)>>)

gf_inv_reply(poly, x) ==
  IF GF128_from_bytes_raises(x) THEN Reply(TRUE, <<>>)
  ELSE IF GF128_inv_raises(GF128_from_bytes(x, poly)) THEN Reply(TRUE, <<>>)
  ELSE Reply(FALSE, <<GF128_to_bytes(GF128_inv(GF128_from_bytes(x, poly)))>>)

gf_div_reply(poly, a, b) ==
  IF GF128_from_bytes_raises(a) \/ GF128_from_bytes_raises(b) THEN Reply(TRUE, <<>>)
  ELSE IF GF128_div_raises(GF128_from_bytes(a, poly), GF128_from_bytes(b, poly))
  THEN Reply(TRUE, <<>>)
  ELSE Reply(FALSE, <<GF128_to_bytes(GF128_div(GF128_from_bytes(a, poly),
                                               GF128_from_bytes(b, poly)))>>)

\* e = 3
gf_pow_reply(poly, b) ==
  IF GF128_from_bytes_raises(b) THEN Reply(TRUE, <<>>)
  ELSE Reply(FALSE, <<GF128_to_bytes(GF128_pow(GF128_from_bytes(b, poly), {0, 1}))>>)

gf_sqrt_reply(poly, x) ==
  IF GF128_from_bytes_raises(x) THEN Reply(TRUE, <<>>)
  ELSE Reply(FALSE, <<GF128_to_bytes(GF128_sqrt(GF128_from_bytes(x, poly)))>>)

\* A = [a, the valid block], B = [b]
gfpoly_add_reply(poly, a, b) ==
  IF GF128_from_bytes_raises(a) \/ GF128_from_bytes_raises(b) THEN Reply(TRUE, <<>>)
  ELSE Reply(FALSE, GFPoly_to_b64(GFPoly_add(GFPoly_from_b64(<<a, LengthValid>>, poly),
                                             GFPoly_from_b64(<<b>>, poly))))

replied(st, reply) == [st EXCEPT !.op = reply.op, !.out = reply.out]

length_called(call) == gf.op = "arg" /\ gf.call = call

b64_gf_mul ==
  /\ length_called("gf_mul")
  /\ gf' = replied(gf, gf_mul_reply(gf.poly, gf.a, gf.b))
  /\ UNCHANGED gf_others

b64_gf_divmod ==
  /\ length_called("gf_divmod")
  /\ gf' = replied(gf, gf_divmod_reply(gf.a, gf.b))
  /\ UNCHANGED gf_others

b64_gf_inv ==
  /\ length_called("gf_inv")
  /\ gf' = replied(gf, gf_inv_reply(gf.poly, gf.a))
  /\ UNCHANGED gf_others

b64_gf_div ==
  /\ length_called("gf_div")
  /\ gf' = replied(gf, gf_div_reply(gf.poly, gf.a, gf.b))
  /\ UNCHANGED gf_others

b64_gf_pow ==
  /\ length_called("gf_pow")
  /\ gf' = replied(gf, gf_pow_reply(gf.poly, gf.a))
  /\ UNCHANGED gf_others

b64_gf_sqrt ==
  /\ length_called("gf_sqrt")
  /\ gf' = replied(gf, gf_sqrt_reply(gf.poly, gf.a))
  /\ UNCHANGED gf_others

b64_gfpoly_add ==
  /\ length_called("gfpoly_add")
  /\ gf' = replied(gf, gfpoly_add_reply(gf.poly, gf.a, gf.b))
  /\ UNCHANGED gf_others

LengthNext ==
  \/ b64_gf_mul
  \/ b64_gf_divmod
  \/ b64_gf_inv
  \/ b64_gf_div
  \/ b64_gf_pow
  \/ b64_gf_sqrt
  \/ b64_gfpoly_add

SpecLength == LengthInit /\ [][LengthNext]_vars

RefWrongLength == Len(gf.a) # 16 \/ Len(gf.b) # 16

\* A byte before the last 16 is not 0.
RefBeyond16(bs) == \E j \in 1 .. Len(bs) - 16 : bs[j] # 0

\* The last 16 bytes, zero bytes put in front of a shorter string.
RefPad16(bs) ==
  IF Len(bs) < 16 THEN zero_bytes(16 - Len(bs)) \o bs ELSE SubSeq(bs, Len(bs) - 15, Len(bs))

RefReplyTo(call, poly, a, b) ==
  CASE call = "gf_mul" -> gf_mul_reply(poly, a, b)
    [] call = "gf_divmod" -> gf_divmod_reply(a, b)
    [] call = "gf_inv" -> gf_inv_reply(poly, a)
    [] call = "gf_div" -> gf_div_reply(poly, a, b)
    [] call = "gf_pow" -> gf_pow_reply(poly, a)
    [] call = "gf_sqrt" -> gf_sqrt_reply(poly, a)
    [] call = "gfpoly_add" -> gfpoly_add_reply(poly, a, b)

\* C23 as stated: every action that reads a field element replies with an
\* error whenever an argument is a byte string of a length other than 16,
\* shorter or longer, and computes no result from it.
C23_WrongLengthIsError ==
  (gf.op # "arg" /\ RefWrongLength) => (gf.op = "error" /\ gf.out = <<>>)

\* C23, what the actions do: an argument with a byte other than 0 before its
\* last 16 bytes gives an error and no result; any other argument, of
\* whatever length, is read as its last 16 bytes with zero bytes put in
\* front, and the reply is the one to that block.
C23_ErrorOnlyBeyond16Bytes ==
  gf.op # "arg" =>
    IF RefBeyond16(gf.a) \/ RefBeyond16(gf.b)
    THEN gf.op = "error" /\ gf.out = <<>>
    ELSE [op |-> gf.op, out |-> gf.out]
           = RefReplyTo(gf.call, gf.poly, RefPad16(gf.a), RefPad16(gf.b))

\* One byte is multiplied as if it were a block.
C23_Witness ==
  /\ gf.op = "return"
  /\ gf.call = "gf_mul"
  /\ gf.a = <<1>>
  /\ Len(gf.b) = 16
  /\ Len(gf.out[1]) = 16

\* 17 bytes that start with 1 give an error.
C23_WitnessLonger ==
  /\ gf.op = "error"
  /\ gf.call = "gf_sqrt"
  /\ Len(gf.a) = 17

\* 17 bytes that start with 0 give a result.
C23_WitnessLongerAccepted ==
  /\ gf.op = "return"
  /\ gf.call = "gf_inv"
  /\ Len(gf.a) = 17

-----------------------------------------------------------------------------
(* The actions that invert or divide, on the element 0 and on another one, *)
(* and gfpoly_factor_edf on degrees that are and are not multiples of d.   *)

DomainBlocks == {LengthValid, zero_bytes(16)}

DomainCalls == {"gf_inv", "gf_div", "gf_divmod", "gfpoly_divmod"}

\* One and two linear factors in the field p1, one in p2, with d = 1, 2.
DomainEdf(poly) ==
  {[irr |-> LinearFactors(poly, n), d |-> d] :
     n \in (IF poly = "p1" THEN 1 .. 2 ELSE {1}), d \in 1 .. 2}

DomainInit ==
  /\ \E poly \in PolyTags :
       \/ /\ \E call \in DomainCalls, a \in DomainBlocks, b \in DomainBlocks :
               gf = [op |-> "arg", call |-> call, poly |-> poly, a |-> a, b |-> b,
                     out |-> <<>>]
          /\ fz = Idle
       \/ /\ \E in \in DomainEdf(poly) :
               fz = [poly |-> poly, op |-> "arg", pc |-> "call", irr |-> in.irr, d |-> in.d,
                     F |-> ProductOf(in.irr, poly), st |-> NoEDF, pm |-> NoPowmod, z |-> <<>>]
          /\ gf = Idle
  /\ pl = Idle
  /\ gc = Idle
  /\ po = Idle
  /\ rs = Idle
  /\ cl = Idle
  /\ km = Idle

\* A = [a, the valid block], B = [b, 0]
gfpoly_divmod_reply(poly, a, b) ==
  IF GF128_from_bytes_raises(a) \/ GF128_from_bytes_raises(b) THEN Reply(TRUE, <<>>)
  ELSE IF GFPoly_divmod_raises(GFPoly_from_b64(<<a, LengthValid>>, poly),
                               GFPoly_from_b64(<<b, zero_bytes(16)>>, poly))
  THEN Reply(TRUE, <<>>)
  ELSE Reply(FALSE,
             <<GFPoly_to_b64(GFPoly_divmod(GFPoly_from_b64(<<a, LengthValid>>, poly),
                                           GFPoly_from_b64(<<b, zero_bytes(16)>>, poly)).Q),
               GFPoly_to_b64(GFPoly_divmod(GFPoly_from_b64(<<a, LengthValid>>, poly),
                                           GFPoly_from_b64(<<b, zero_bytes(16)>>, poly)).R)>>)

b64_gfpoly_divmod ==
  /\ length_called("gfpoly_divmod")
  /\ gf' = replied(gf, gfpoly_divmod_reply(gf.poly, gf.a, gf.b))
  /\ UNCHANGED gf_others

domain_factorizing == fz.op # "idle"

domain_edf_call == domain_factorizing /\ edf_call
domain_edf_draw == domain_factorizing /\ edf_draw
domain_edf_powmod_round == domain_factorizing /\ edf_powmod_round
domain_edf_powmod_return == domain_factorizing /\ edf_powmod_return
domain_factor_edf == domain_factorizing /\ gfpoly_factor_edf

DomainNext ==
  \/ b64_gf_inv
  \/ b64_gf_div
  \/ b64_gf_divmod
  \/ b64_gfpoly_divmod
  \/ domain_edf_call
  \/ domain_edf_draw
  \/ domain_edf_powmod_round
  \/ domain_edf_powmod_return
  \/ domain_factor_edf

SpecDomain == DomainInit /\ [][DomainNext]_vars

RefZeroBlock(bs) == \A j \in 1 .. Len(bs) : bs[j] = 0

\* The call inverts 0 or divides by 0.
RefDividesByZero ==
  \/ gf.call = "gf_inv" /\ RefZeroBlock(gf.a)
  \/ gf.call \in {"gf_div", "gf_divmod", "gfpoly_divmod"} /\ RefZeroBlock(gf.b)

\* C24: gf_inv of 0, gf_div with b = 0, gfpoly_divmod with B = 0, gf_divmod
\* with b = 0 and gfpoly_factor_edf with deg(F) not a multiple of d each end
\* in an error reply and never in a result.
C24_DomainErrors ==
  /\ (gf.op \notin {"idle", "arg"} /\ RefDividesByZero) =>
       (gf.op = "error" /\ gf.out = <<>>)
  /\ (fz.op # "idle" /\ fz.pc # "call" /\ deg(fz.F) % fz.d # 0) =>
       (fz.op = "error" /\ fz.pc = "done" /\ fz.z = <<>>)

\* The division of a nonzero element by 0.
C24_Witness ==
  /\ gf.op = "error"
  /\ gf.call = "gf_div"
  /\ ~RefZeroBlock(gf.a)
  /\ RefZeroBlock(gf.b)

\* Degree 1 with d = 2.
C24_WitnessEdf ==
  /\ fz.op = "error"
  /\ deg(fz.F) = 1
  /\ fz.d = 2

\* The same actions return on arguments other than 0.
C24_WitnessReturn ==
  /\ gf.op = "return"
  /\ gf.call = "gfpoly_divmod"
  /\ Len(gf.out) = 2

-----------------------------------------------------------------------------
(* gcm_crack on messages whose tags are any blocks: one-block messages     *)
(* that are all different, or of which the first is repeated as the second *)
(* or as the third, each with tags that agree or differ.                   *)

ForgedTriples == {<<1, 1, 4>>, <<1, 4, 5>>, <<1, 4, 1>>, <<4, 4, 5>>}

ForgedTags == {Pattern(16, 17), Pattern(16, 40), Pattern(16, 99)}

Tagged(m, tag) ==
  [associated_data |-> m.associated_data, ciphertext |-> m.ciphertext, tag |-> tag]

ForgedArguments(t, T2, T3, poly) ==
  [poly |-> poly,
   m1 |-> Tagged(Messages[t[1]], Pattern(16, 17)),
   m2 |-> Tagged(Messages[t[2]], T2),
   m3 |-> Tagged(Messages[t[3]], T3),
   forgery |-> Forgery]

ForgedInit ==
  /\ \E poly \in PolyTags, t \in ForgedTriples, T2 \in ForgedTags, T3 \in ForgedTags :
       gc = [op |-> "arg", call |-> "gcm_crack", triple |-> t,
             arguments |-> ForgedArguments(t, T2, T3, poly), draws |-> <<>>,
             G |-> <<>>, reply |-> NoCrackReply]
  /\ gf = Idle
  /\ pl = Idle
  /\ fz = Idle
  /\ po = Idle
  /\ rs = Idle
  /\ cl = Idle
  /\ km = Idle

ForgedNext == gcm_crack

SpecForged == ForgedInit /\ [][ForgedNext]_vars

\* tag = mask xor GHASH_H(A, C), with the H and the mask of the reply.
RefTagFits(m, tag) ==
  \A i \in 1 .. 16 :
    tag[i] = RefXor(gc.reply.mask[i],
                    RefGHASH(gc.reply.H, m.associated_data, m.ciphertext,
                             gc.arguments.poly)[i])

RefMessageFits(m) == Len(m.tag) = 16 /\ RefTagFits(m, m.tag)

\* C28 as stated: for any input, whenever gcm_crack replies with tag, H and
\* mask, T_i = mask xor S_i(H) for the three messages and tag = mask xor
\* S_f(H).
C28_ReplyFitsAllMessages ==
  gc.op = "gcm_crack" =>
    /\ RefMessageFits(gc.arguments.m1)
    /\ RefMessageFits(gc.arguments.m2)
    /\ RefMessageFits(gc.arguments.m3)
    /\ RefTagFits(gc.arguments.forgery, gc.reply.tag)

\* C28: for any input, whenever gcm_crack replies with tag, H and mask,
\* T_1 = mask xor S_1(H), T_3 = mask xor S_3(H) and tag = mask xor S_f(H);
\* T_2 = mask xor S_2(H) as well if the gcd of F_1_2 and F_1_3 is not 1.
C28_ReplyFitsFirstAndThird ==
  gc.op = "gcm_crack" =>
    /\ RefMessageFits(gc.arguments.m1)
    /\ RefMessageFits(gc.arguments.m3)
    /\ RefTagFits(gc.arguments.forgery, gc.reply.tag)
    /\ ~is_one(gc.G) => RefMessageFits(gc.arguments.m2)

\* The first message is sent twice with two tags: H comes from F_1_3 alone.
C28_Witness ==
  /\ gc.op = "gcm_crack"
  /\ gc.triple = <<1, 1, 4>>
  /\ gc.arguments.m2.tag # gc.arguments.m1.tag
  /\ is_one(gc.G)
  /\ ~RefMessageFits(gc.arguments.m2)

\* A reply whose H and mask fit the three messages.
C28_WitnessAllFit ==
  /\ gc.op = "gcm_crack"
  /\ ~is_one(gc.G)
  /\ RefMessageFits(gc.arguments.m2)

\* Three different messages with unrelated tags: no candidate is valid.
C28_WitnessError ==
  /\ gc.op = "error"
  /\ gc.triple = <<1, 4, 5>>
  /\ is_one(gc.G)

-----------------------------------------------------------------------------
(* gfpoly_factor_edf under a fair choice of h: every h of Draws is drawn   *)
(* again and again while the loop goes on, and a step that can be taken is *)
(* taken.                                                                  *)

\* The loop draws the h with these coefficients.
edf_draw_of(coeffs) ==
  /\ edf_draw
  /\ fz'.pc = "powmod"
  /\ fz'.pm = powmod_start(edf_h(coeffs, fz.poly), edf_exponent(fz.d), fz.st.f)

\* One and two linear factors with d = 1, an irreducible quadratic
\* polynomial with d = 2.
FairInputs(poly) ==
  {[irr |-> LinearFactors(poly, n), d |-> 1] : n \in 1 .. 2}
    \cup {[irr |-> {x}, d |-> 2] : x \in {x \in Irreducibles(poly) : x.n = 2}}

EDFFairInit ==
  /\ \E poly \in PolyTags :
       \E in \in FairInputs(poly) :
         fz = [poly |-> poly, op |-> "arg", pc |-> "call", irr |-> in.irr, d |-> in.d,
               F |-> ProductOf(in.irr, poly), st |-> NoEDF, pm |-> NoPowmod, z |-> <<>>]
  /\ gf = Idle
  /\ pl = Idle
  /\ gc = Idle
  /\ po = Idle
  /\ rs = Idle
  /\ cl = Idle
  /\ km = Idle

\* The action has a step to take until it has returned or raised.
RefRunning == fz.pc # "done"

\* The interpreter goes on with the action as long as it has a step to take
\* (the weak fairness of EDFNext, its enabling condition written out), and
\* random.getrandbits gives each h again and again.
EDFFairness ==
  /\ []<>(~RefRunning) \/ []<><<EDFNext>>_vars
  /\ \A coeffs \in Draws : SF_vars(edf_draw_of(coeffs))

SpecEDFFair == EDFFairInit /\ [][EDFNext]_vars /\ EDFFairness

\* F is the product of n >= 1 irreducible polynomials of degree d.
RefEqualDegree == fz.irr # {} /\ \A x \in fz.irr : x.n = fz.d

RefInLoop == fz.pc \in {"while", "powmod"}

\* The working set holds at most n polynomials.
RefAtMostN == (RefEqualDegree /\ RefInLoop) => Len(fz.st.z) <= Cardinality(fz.irr)

\* No step of the loop makes the working set shorter.
RefNeverShrinks ==
  (RefEqualDegree /\ RefInLoop /\ fz'.pc \in {"while", "powmod"}) =>
    Len(fz'.st.z) >= Len(fz.st.z)

\* The call has returned the n factors.
RefAllFound == fz.op = "gfpoly_factor_edf" /\ Len(fz.z) = Cardinality(fz.irr)

\* C30: for a monic square-free F that is the product of n >= 1 different
\* irreducible polynomials of degree d, equal_degree_factorization(d)
\* terminates under a fair choice of h: the working set never holds more
\* than n polynomials, never shrinks, and reaches n polynomials.
C30_EdfTerminates ==
  /\ []RefAtMostN
  /\ [][RefNeverShrinks]_vars
  /\ (RefEqualDegree /\ fz.pc = "call") ~> RefAllFound

\* Two linear factors have been told apart.
C30_Witness ==
  /\ fz.op = "gfpoly_factor_edf"
  /\ fz.d = 1
  /\ Cardinality(fz.irr) = 2
  /\ Len(fz.z) = 2

\* A draw that split nothing: the loop goes on with the set it had.
C30_WitnessNoSplit ==
  /\ fz.pc = "powmod"
  /\ ~powmod_cond(fz.pm)
  /\ fz.st.n = 2
  /\ is_one(fz.pm.Z)

-----------------------------------------------------------------------------
(* The padding-oracle attack: start_attack and single_block_attack run     *)
(* statement by statement against a server that holds D(C) for every       *)
(* block C, over sockets whose answers arrive in pieces and whose peer may *)
(* hang up.  The arguments are the decoded bytes.                          *)

\* x ^ y on 4-bit numbers.
xor_nibble == [x \in 0 .. 15 |-> [y \in 0 .. 15 |-> Number(XOR(Bits(x), Bits(y)))]]

\* x ^ y on bytes.
py_xor(x, y) == 16 * xor_nibble[x \div 16][y \div 16] + xor_nibble[x % 16][y % 16]

\* split_cipher: the 16-byte blocks of cipher.
split_cipher_raises(cipher) == Len(cipher) % 16 # 0

split_cipher(cipher) ==
  list([k \in 1 .. Len(cipher) \div 16 |-> SubSeq(cipher, 16 * (k - 1) + 1, 16 * k)])

to_bytes_big_2(n) == <<n \div 256, n % 256>>

\* key_id.to_bytes(2, byteorder = "little")
to_bytes_little_2_raises(n) == n < 0 \/ n >= 65536

to_bytes_little_2(n) == <<n % 256, n \div 256>>

padding_value(current_byte_index) == 16 - current_byte_index

\* Byte j (0..15) of the Q-block of a guess: the bytes right of the current
\* one give the padding value with the plaintext found so far, the current
\* one gives it if the guess is right, the bytes left of it are 0.
q_block_byte(guess, j, current_byte_index, plaintext, prev_block) ==
  IF j > current_byte_index
  THEN py_xor(py_xor(plaintext[j + 1], padding_value(current_byte_index)), prev_block[j + 1])
  ELSE IF j = current_byte_index
  THEN py_xor(py_xor(guess, padding_value(current_byte_index)), prev_block[j + 1])
  ELSE 0

q_block_candidate(guess, current_byte_index, plaintext, prev_block) ==
  list([n \in 1 .. 16 |-> q_block_byte(guess, n - 1, current_byte_index, plaintext, prev_block)])

\* b"".join(q_blocks) for the 256 guesses.
all_q_blocks(current_byte_index, plaintext, prev_block) ==
  list([n \in 1 .. 256 * 16 |->
          q_block_byte((n - 1) \div 16, (n - 1) % 16, current_byte_index, plaintext, prev_block)])

\* The guesses i with response[i] == 1, in rising order.
RECURSIVE candidates_of(_, _, _)
candidates_of(response, lo, hi) ==
  IF lo > hi THEN <<>>
  ELSE IF lo = hi THEN (IF response[lo] = 1 THEN <<lo - 1>> ELSE <<>>)
  ELSE candidates_of(response, lo, (lo + hi) \div 2)
         \o candidates_of(response, (lo + hi) \div 2 + 1, hi)

flip_index(current_byte_index) ==
  IF current_byte_index > 0 THEN current_byte_index - 1 ELSE 1

verification_block_not_flipped(candidate, current_byte_index, plaintext, prev_block) ==
  q_block_candidate(candidate, current_byte_index, plaintext, prev_block)

\* The Q-block of the verification of a candidate.
verification_block(candidate, current_byte_index, plaintext, prev_block) ==
  [q_block_candidate(candidate, current_byte_index, plaintext, prev_block)
     EXCEPT ![flip_index(current_byte_index) + 1] = py_xor(@, 255)]

plaintext_assign_padded(plaintext, current_byte_index, selected_candidate) ==
  [plaintext EXCEPT ![current_byte_index + 1] =
                      py_xor(selected_candidate, padding_value(current_byte_index))]

\* plaintext[current_byte_index] = selected_candidate
plaintext_assign(plaintext, current_byte_index, selected_candidate) ==
  [plaintext EXCEPT ![current_byte_index + 1] = selected_candidate]

\* The server: PKCS#7 on D(C) XOR Q.
pkcs7_valid(D, Q) ==
  \E k \in 1 .. 16 :
    /\ py_xor(D[16], Q[16]) = k
    /\ \A j \in 17 - k .. 16 : py_xor(D[j], Q[j]) = k

\* The answer of the server to the blocks it has read: a truthful oracle
\* ("padding"), one that never finds a padding ("zero") and one that finds
\* one in every block of a batch of 256 and in no single block ("batch").
server_answer(mode, D, blocks) ==
  list([g \in 1 .. Len(blocks) \div 16 |->
          IF mode = "padding"
          THEN (IF pkcs7_valid(D, SubSeq(blocks, 16 * (g - 1) + 1, 16 * g)) THEN 1 ELSE 0)
          ELSE IF mode = "batch" /\ Len(blocks) > 16 THEN 1
          ELSE 0])

\* A socket of the client: whether the client holds it open, what sendall
\* has written to it (the bytes of the short messages, the length of every
\* message and the number of bytes the client had read by then), the bytes
\* that have arrived and are not read yet, the number of bytes read, the
\* D(C) of the session and whether the server has hung up.
new_socket ==
  [open |-> TRUE, sent |-> <<>>, inbox |-> <<>>, received |-> 0, D |-> <<>>, peer |-> "up"]

\* The connection of the block that is attacked.
connection == po.sockets[Len(po.sockets)]

\* What can happen to a message: the server reads it and answers; it
\* answers in part and hangs up; it hangs up; and once it has hung up
\* sendall fails or the message is lost.
Reactions(s, flaky, answered) ==
  IF s.peer = "closed" THEN {"raise", "lost"}
  ELSE IF ~flaky THEN {"answer"}
  ELSE IF answered THEN {"answer", "part", "hangup"}
  ELSE {"answer", "hangup"}

arrived(answer, reaction) ==
  IF reaction = "answer" THEN answer
  ELSE IF reaction = "part" THEN SubSeq(answer, 1, Len(answer) \div 2)
  ELSE <<>>

\* socket.sendall(b) that does not fail.
sendall(s, call, b, answer, reaction) ==
  [s EXCEPT !.sent = Append(@, [call |-> call, len |-> Len(b), at |-> s.received,
                                bytes |-> IF Len(b) <= 16 THEN b ELSE <<>>]),
            !.inbox = @ \o arrived(answer, reaction),
            !.peer = IF reaction = "answer" THEN @ ELSE "closed"]

\* The reply {"error": ...} of start_attack.
po_error(kind) == [po EXCEPT !.op = "error", !.pc = "done", !.error = kind]

po_sent(s, pc) == [po EXCEPT !.sockets[Len(po.sockets)] = s, !.pc = pc]

\* start_attack up to the loop.
start_attack ==
  /\ po.pc = "start"
  /\ po' = IF split_cipher_raises(po.arguments.ciphertext)
           THEN po_error("split")
           ELSE [po EXCEPT !.pc = "for",
                           !.ciphertext_blocks = split_cipher(po.arguments.ciphertext),
                           !.prev_block = po.arguments.iv]
  /\ UNCHANGED po_others

\* The next block: a new connection.
start_attack_connect ==
  /\ po.pc = "for"
  /\ po.k < Len(po.ciphertext_blocks)
  /\ po' = IF po.server.mode = "down"
           THEN po_error("connect")
           ELSE [po EXCEPT !.pc = "send_key_id", !.k = @ + 1,
                           !.sockets = Append(@, new_socket)]
  /\ UNCHANGED po_others

\* No block is left: the reply {"plaintext": ...}.
start_attack_return ==
  /\ po.pc = "for"
  /\ po.k = Len(po.ciphertext_blocks)
  /\ po' = [po EXCEPT !.pc = "done", !.op = "plaintext", !.out = po.full_plaintext]
  /\ UNCHANGED po_others

send_key_id ==
  /\ po.pc = "send_key_id"
  /\ \E reaction \in Reactions(connection, po.server.flaky, FALSE) :
       po' = IF to_bytes_little_2_raises(po.arguments.key_id) \/ reaction = "raise"
             THEN po_error("send")
             ELSE po_sent(sendall(connection, "send_key_id",
                                  to_bytes_little_2(po.arguments.key_id), <<>>, reaction),
                          "send_ciphertext")
  /\ UNCHANGED po_others

\* The block is sent, the server decrypts it; plaintext = bytearray(16) and
\* the loop starts at byte 15.
send_ciphertext ==
  /\ po.pc = "send_ciphertext"
  /\ \E reaction \in Reactions(connection, po.server.flaky, FALSE) :
       po' = IF reaction = "raise"
             THEN po_error("send")
             ELSE [po_sent([sendall(connection, "send_ciphertext",
                                    po.ciphertext_blocks[po.k], <<>>, reaction)
                              EXCEPT !.D = po.server.D[po.ciphertext_blocks[po.k]]],
                           "send_q_count")
                     EXCEPT !.plaintext = zero_bytes(16), !.current_byte_index = 15]
  /\ UNCHANGED po_others

\* connection.send_q_count(q_count) of the batch of 256.
send_q_count ==
  /\ po.pc = "send_q_count"
  /\ \E reaction \in Reactions(connection, po.server.flaky, FALSE) :
       po' = IF reaction = "raise"
             THEN po_error("send")
             ELSE po_sent(sendall(connection, "send_q_count", to_bytes_little_2(256),
                                  <<>>, reaction),
                          "send_q_blocks")
  /\ UNCHANGED po_others

\* connection.send_q_blocks(all_q_blocks); the server answers.
send_q_blocks ==
  /\ po.pc = "send_q_blocks"
  /\ \E blocks \in {all_q_blocks(po.current_byte_index, po.plaintext, po.prev_block)} :
       \E answer \in {server_answer(po.server.mode, connection.D, blocks)} :
         \E reaction \in Reactions(connection, po.server.flaky, TRUE) :
           po' = IF reaction = "raise"
                 THEN po_error("send")
                 ELSE [po_sent(sendall(connection, "send_q_blocks", blocks, answer, reaction),
                               "receive")
                         EXCEPT !.q_count = 256, !.data = <<>>, !.verifying = FALSE]
  /\ UNCHANGED po_others

\* Answers of up to MaxShort bytes arrive in pieces of every size, longer
\* ones whole or the first half first.
MaxShort == 4

Min2(a, b) == IF a <= b THEN a ELSE b

\* The lengths socket.recv(n) can return when m bytes have arrived.
ChunkSizes(n, m) ==
  IF Min2(n, m) <= MaxShort THEN 1 .. Min2(n, m)
  ELSE {Min2(n, m), (Min2(n, m) + 1) \div 2}

data_replaced(data, chunk) == chunk

\* data.extend(chunk)
data_extend(data, chunk) == data \o chunk

\* One round of the loop of recv_exact with a chunk that is not empty.
recv_exact ==
  /\ po.pc = "receive"
  /\ Len(po.data) < po.q_count
  /\ connection.inbox # <<>>
  /\ \E size \in ChunkSizes(po.q_count - Len(po.data), Len(connection.inbox)) :
       po' = [po EXCEPT !.data = data_extend(@, SubSeq(connection.inbox, 1, size)),
                        !.sockets[Len(po.sockets)].inbox = SubSeq(@, size + 1, Len(@)),
                        !.sockets[Len(po.sockets)].received = @ + size]
  /\ UNCHANGED po_others

\* Nothing has arrived and nothing will: recv returns b"" after the server
\* has hung up and times out otherwise; receive_response fails.
recv_exact_raise ==
  /\ po.pc = "receive"
  /\ Len(po.data) < po.q_count
  /\ connection.inbox = <<>>
  /\ po' = po_error(IF po.verifying THEN "verification" ELSE "receive")
  /\ UNCHANGED po_others

\* return bytes(data)
receive_response ==
  /\ po.pc = "receive"
  /\ Len(po.data) >= po.q_count
  /\ po' = [po EXCEPT !.response = po.data,
                      !.pc = IF po.verifying THEN "verified" ELSE "candidates"]
  /\ UNCHANGED po_others

\* The candidates of the batch: none is an error, one is selected, more
\* than one are verified.
find_candidates ==
  /\ po.pc = "candidates"
  /\ \E found \in {candidates_of(po.response, 1, Len(po.response))} :
       po' = IF found = <<>> THEN po_error("candidate")
             ELSE IF Len(found) > 1
             THEN [po EXCEPT !.candidates = found, !.c = 1, !.pc = "verify_q_count"]
             ELSE [po EXCEPT !.candidates = found, !.selected_candidate = found[1],
                             !.pc = "assign"]
  /\ UNCHANGED po_others

\* connection.send_q_count(1) of a verification.
verify_send_q_count ==
  /\ po.pc = "verify_q_count"
  /\ \E reaction \in Reactions(connection, po.server.flaky, FALSE) :
       po' = IF reaction = "raise"
             THEN po_error("verification")
             ELSE po_sent(sendall(connection, "send_q_count", to_bytes_little_2(1),
                                  <<>>, reaction),
                          "verify_q_blocks")
  /\ UNCHANGED po_others

\* The single Q-block of the verification is sent; the server answers.
verify_send_q_blocks ==
  /\ po.pc = "verify_q_blocks"
  /\ \E block \in {verification_block(po.candidates[po.c], po.current_byte_index,
                                      po.plaintext, po.prev_block)} :
       \E reaction \in Reactions(connection, po.server.flaky, TRUE) :
         po' = IF reaction = "raise"
               THEN po_error("verification")
               ELSE [po_sent(sendall(connection, "send_q_blocks", block,
                                     server_answer(po.server.mode, connection.D, block),
                                     reaction),
                             "receive")
                       EXCEPT !.q_count = 1, !.data = <<>>, !.verifying = TRUE]
  /\ UNCHANGED po_others

\* The answer to the verification: the candidate is selected, the next one
\* is verified, or none is left.
verified ==
  /\ po.pc = "verified"
  /\ po' = IF Len(po.response) > 0 /\ po.response[1] = 1
           THEN [po EXCEPT !.selected_candidate = po.candidates[po.c], !.pc = "assign"]
           ELSE IF po.c < Len(po.candidates)
           THEN [po EXCEPT !.c = @ + 1, !.pc = "verify_q_count"]
           ELSE po_error("verification")
  /\ UNCHANGED po_others

\* plaintext[current_byte_index] = selected_candidate and the next byte.
assign ==
  /\ po.pc = "assign"
  /\ po' = [po EXCEPT !.plaintext = plaintext_assign(@, po.current_byte_index,
                                                     po.selected_candidate),
                      !.current_byte_index = IF @ > 0 THEN @ - 1 ELSE @,
                      !.pc = IF po.current_byte_index > 0 THEN "send_q_count"
                             ELSE "send_q_count_0"]
  /\ UNCHANGED po_others

\* connection.send_q_count(0): the server ends the session.
send_q_count_0 ==
  /\ po.pc = "send_q_count_0"
  /\ \E reaction \in Reactions(connection, po.server.flaky, FALSE) :
       po' = IF reaction = "raise"
             THEN po_error("send")
             ELSE po_sent([sendall(connection, "send_q_count", to_bytes_little_2(0),
                                   <<>>, reaction) EXCEPT !.peer = "closed"],
                          "close")
  /\ UNCHANGED po_others

close_not_called(s) == s

\* Connection.close
close(s) == [s EXCEPT !.open = FALSE]

\* connection.close() and return bytes(plaintext); the block is added to the
\* plaintext and becomes the previous block.
single_block_attack ==
  /\ po.pc = "close"
  /\ po' = [po EXCEPT !.sockets[Len(po.sockets)] = close(@),
                      !.full_plaintext = @ \o po.plaintext,
                      !.prev_block = po.ciphertext_blocks[po.k],
                      !.pc = "for"]
  /\ UNCHANGED po_others

\* Two ciphertext blocks and what the server decrypts them to: a block
\* without a second valid padding, blocks that also end in 02 02 and in
\* 03 03 03 with the last Q-byte of another guess (below and above the
\* byte of the plaintext).
BlockA == Pattern(16, 5)
BlockB == Pattern(16, 77)
DPlain == Pattern(16, 19)
DTwoBelow == [Pattern(16, 19) EXCEPT ![15] = 2]
DTwoAbove == [Pattern(16, 19) EXCEPT ![15] = 2, ![16] = 100]
DThree == [Pattern(16, 19) EXCEPT ![14] = 3, ![15] = 3]

Server(mode, flaky, DA, DB) ==
  [mode |-> mode, flaky |-> flaky,
   D |-> [b \in {BlockA, BlockB} |-> IF b = BlockA THEN DA ELSE DB]]

Attack(key_id, iv, ciphertext, server) ==
  [arguments |-> [key_id |-> key_id, iv |-> iv, ciphertext |-> ciphertext],
   server |-> server]

\* The attacks: a truthful server ("padding") on 0, 1 and 2 blocks; one
\* that hangs up at some message; servers that answer otherwise; a server
\* that is down; a key_id of more than 2 bytes; a ciphertext that is not
\* made of blocks.
Attacks ==
  {Attack(1, zero_bytes(16), <<>>, Server("padding", FALSE, DPlain, DPlain)),
   Attack(258, zero_bytes(16), BlockA, Server("padding", FALSE, DPlain, DPlain)),
   Attack(1, Pattern(16, 140), BlockA \o BlockB,
          Server("padding", FALSE, DTwoBelow, DTwoAbove)),
   Attack(1, zero_bytes(16), BlockB \o BlockA, Server("padding", FALSE, DThree, DTwoAbove)),
   Attack(1, zero_bytes(16), BlockA, Server("padding", TRUE, DTwoBelow, DPlain)),
   Attack(1, zero_bytes(16), BlockA, Server("zero", FALSE, DPlain, DPlain)),
   Attack(1, zero_bytes(16), BlockA, Server("batch", FALSE, DPlain, DPlain)),
   Attack(1, zero_bytes(16), BlockA, Server("down", FALSE, DPlain, DPlain)),
   Attack(70000, zero_bytes(16), BlockA, Server("padding", FALSE, DPlain, DPlain)),
   Attack(1, zero_bytes(16), BlockA \o <<7>>, Server("padding", FALSE, DPlain, DPlain))}

\* The attack before its first statement.
po_start(attack) ==
  [op |-> "arg", pc |-> "start", error |-> "", out |-> <<>>,
   arguments |-> attack.arguments, server |-> attack.server,
   ciphertext_blocks |-> <<>>, k |-> 0, prev_block |-> <<>>, full_plaintext |-> <<>>,
   sockets |-> <<>>, plaintext |-> <<>>, current_byte_index |-> 0,
   q_count |-> 0, data |-> <<>>, response |-> <<>>, verifying |-> FALSE,
   candidates |-> <<>>, c |-> 0, selected_candidate |-> 0]

OracleInit ==
  /\ \E attack \in Attacks : po = po_start(attack)
  /\ gf = Idle
  /\ pl = Idle
  /\ fz = Idle
  /\ gc = Idle
  /\ rs = Idle
  /\ cl = Idle
  /\ km = Idle

OracleNext ==
  \/ start_attack
  \/ start_attack_connect
  \/ start_attack_return
  \/ send_key_id
  \/ send_ciphertext
  \/ send_q_count
  \/ send_q_blocks
  \/ recv_exact
  \/ recv_exact_raise
  \/ receive_response
  \/ find_candidates
  \/ verify_send_q_count
  \/ verify_send_q_blocks
  \/ verified
  \/ assign
  \/ send_q_count_0
  \/ single_block_attack

SpecOracle == OracleInit /\ [][OracleNext]_vars

\* receive_response(q) alone: q up to MaxRecv, 0 to MaxRecv + 1 bytes of the
\* answer have arrived or will arrive, in pieces of every size, and the
\* server has hung up after them or sends no more.
MaxRecv == 3

RECURSIVE Answers(_)
Answers(n) ==
  IF n = 0 THEN {<<>>}
  ELSE Answers(n - 1) \cup {Append(a, b) : a \in {a \in Answers(n - 1) : Len(a) = n - 1},
                                          b \in {0, 1}}

RecvInit ==
  /\ \E q \in 0 .. MaxRecv, answer \in Answers(MaxRecv + 1), peer \in {"up", "closed"},
        verifying \in BOOLEAN :
       po = [po_start(Attack(1, zero_bytes(16), BlockA,
                             Server("padding", FALSE, DPlain, DPlain)))
               EXCEPT !.pc = "receive", !.q_count = q, !.verifying = verifying,
                      !.k = 1, !.ciphertext_blocks = <<BlockA>>,
                      !.sockets = <<[new_socket EXCEPT !.inbox = answer, !.peer = peer,
                                                       !.D = DPlain]>>]
  /\ gf = Idle
  /\ pl = Idle
  /\ fz = Idle
  /\ gc = Idle
  /\ rs = Idle
  /\ cl = Idle
  /\ km = Idle

RecvNext ==
  \/ recv_exact
  \/ recv_exact_raise
  \/ receive_response

SpecRecv == RecvInit /\ [][RecvNext]_vars

-----------------------------------------------------------------------------
(* What the attack recovers *)

\* The k-th block of the ciphertext argument and the block before it.
RefBlock(k) == SubSeq(po.arguments.ciphertext, 16 * (k - 1) + 1, 16 * k)

RefPrevious(k) == IF k = 1 THEN po.arguments.iv ELSE RefBlock(k - 1)

\* D(C_k) XOR the block before C_k.
RefPlain(k) ==
  [j \in 1 .. 16 |-> RefXor(po.server.D[RefBlock(k)][j], RefPrevious(k)[j])]

RECURSIVE RefPlaintext(_)
RefPlaintext(k) == IF k = 0 THEN <<>> ELSE RefPlaintext(k - 1) \o RefPlain(k)

\* The server answers every batch, and 1 exactly for a valid padding.
RefTruthful == po.server.mode = "padding" /\ ~po.server.flaky

\* The arguments are a key_id of 2 bytes and whole blocks.
RefWellFormed ==
  /\ po.arguments.key_id \in 0 .. 65535
  /\ Len(po.arguments.ciphertext) % 16 = 0

\* C9: against a truthful oracle single_block_attack returns D(C_t) XOR P,
\* every byte found on the way being the byte of it, and start_attack
\* returns these blocks one after the other in the order of the ciphertext.
C9_AttackRecovers ==
  (RefTruthful /\ RefWellFormed) =>
    /\ po.pc \in {"send_q_count", "send_q_blocks", "receive", "candidates"} =>
         \A j \in po.current_byte_index + 2 .. 16 : po.plaintext[j] = RefPlain(po.k)[j]
    /\ po.pc \in {"send_q_count_0", "close"} => po.plaintext = RefPlain(po.k)
    /\ po.pc = "for" => po.full_plaintext = RefPlaintext(po.k)
    /\ po.pc = "done" =>
         /\ po.op = "plaintext"
         /\ po.out = RefPlaintext(Len(po.arguments.ciphertext) \div 16)

\* Two blocks have been recovered, the second with the first as the block
\* before it.
C9_Witness ==
  /\ RefTruthful
  /\ po.op = "plaintext"
  /\ Len(po.out) = 32
  /\ po.arguments.iv # zero_bytes(16)

-----------------------------------------------------------------------------
(* The verification of several candidates *)

\* C17: when more than one of the 256 candidates is reported valid, the
\* verification of a candidate is answered valid for the byte of the
\* plaintext and invalid for every other candidate, and the byte of the
\* plaintext is the one selected.
C17_VerificationFindsTrueByte ==
  po.server.mode = "padding" =>
    /\ po.pc = "verified" =>
         /\ Len(po.candidates) > 1
         /\ po.response[1] = 1 <=>
              po.candidates[po.c] = RefPlain(po.k)[po.current_byte_index + 1]
    /\ (po.pc = "assign" /\ Len(po.candidates) > 1) =>
         po.selected_candidate = RefPlain(po.k)[po.current_byte_index + 1]

\* The first candidate was refused by its verification and the second one
\* selected.
C17_Witness ==
  /\ po.server.mode = "padding"
  /\ po.pc = "assign"
  /\ Len(po.candidates) > 1
  /\ po.c = 2

\* The byte of the plaintext was the first of the candidates.
C17_WitnessFirst ==
  /\ po.server.mode = "padding"
  /\ po.pc = "assign"
  /\ Len(po.candidates) > 1
  /\ po.c = 1

\* The padding 03 03 03 was the second valid one.
C17_WitnessThree ==
  /\ po.pc = "verified"
  /\ po.server.D[RefBlock(po.k)][14] = 3
  /\ po.response[1] = 0

-----------------------------------------------------------------------------
(* What is written to a connection, and when *)

\* The number of 2 little-endian bytes.
RefNumber(b) == b[1] + 256 * b[2]

\* How many of the q_counts written up to message p are 256.  The q_counts
\* are the messages 3, 5, 7, ...
RefBatches(L, p) == Cardinality({r \in 3 .. p : r % 2 = 1 /\ RefNumber(L[r].bytes) = 256})

\* The number of bytes asked for by the q_counts before message p.
RefAsked(L, p) == IF p = 3 THEN 0 ELSE L[p - 2].at + RefNumber(L[p - 2].bytes)

\* Message p of the log L of the connection of block n is the one the
\* protocol has at this place, written after every answer asked for before
\* had been read in full.
RefInOrder(L, p, n) ==
  IF p = 1 THEN /\ L[p].call = "send_key_id"
                /\ L[p].len = 2
                /\ RefNumber(L[p].bytes) = po.arguments.key_id
  ELSE IF p = 2 THEN /\ L[p].call = "send_ciphertext"
                     /\ L[p].bytes = RefBlock(n)
  ELSE IF p % 2 = 1
  THEN /\ L[p].call = "send_q_count"
       /\ L[p].len = 2
       /\ RefNumber(L[p].bytes) \in {0, 1, 256}
       /\ L[p].at = RefAsked(L, p)
       /\ p = 3 => RefNumber(L[p].bytes) = 256
       /\ RefNumber(L[p].bytes) = 256 => RefBatches(L, p) <= 16
       /\ RefNumber(L[p].bytes) = 0 => RefBatches(L, p) = 16 /\ p = Len(L)
  ELSE /\ L[p].call = "send_q_blocks"
       /\ L[p].len = 16 * RefNumber(L[p - 1].bytes)
       /\ L[p].at = L[p - 1].at

\* The session of a connection has been ended with q_count = 0.
RefEnded(s) ==
  /\ Len(s.sent) >= 3
  /\ s.sent[Len(s.sent)].call = "send_q_count"
  /\ RefNumber(s.sent[Len(s.sent)].bytes) = 0

\* C15: every block has a connection of its own, on which the client
\* writes key_id as 2 little-endian bytes, the block, then for the bytes 15
\* down to 0 q_count = 256 and 256 Q-blocks, each batch after the answer to
\* the one before has been read in full, with verifications of q_count = 1
\* after a batch, and at last q_count = 0, after which it writes nothing
\* and closes; the connection of the next block is opened after that.
C15_WireOrder ==
  /\ Len(po.sockets) = po.k
  /\ \A n \in 1 .. Len(po.sockets) :
       /\ \A p \in 1 .. Len(po.sockets[n].sent) : RefInOrder(po.sockets[n].sent, p, n)
       /\ ~po.sockets[n].open => RefEnded(po.sockets[n])
       /\ n < Len(po.sockets) => ~po.sockets[n].open
  /\ po.op = "plaintext" =>
       /\ Len(po.sockets) = Len(po.arguments.ciphertext) \div 16
       /\ \A n \in 1 .. Len(po.sockets) : ~po.sockets[n].open

\* Two blocks have been attacked, with verifications on the connection of
\* the second one.
C15_Witness ==
  /\ po.op = "plaintext"
  /\ Len(po.sockets) = 2
  /\ \E p \in 1 .. Len(po.sockets[2].sent) :
       /\ po.sockets[2].sent[p].call = "send_q_count"
       /\ RefNumber(po.sockets[2].sent[p].bytes) = 1

\* A key_id whose two bytes differ is on the wire.
C15_WitnessKeyId ==
  /\ po.arguments.key_id = 258
  /\ po.op = "plaintext"

-----------------------------------------------------------------------------
(* Reading an answer *)

RefReturned == po.pc \in {"candidates", "verified"}

\* C25: receive_response(q) returns exactly q bytes, the first q that
\* arrive, however the answer is split into pieces, and never returns more
\* or fewer; if fewer than q bytes arrive it fails and the action replies
\* an error.
C25_ReceivesExactly ==
  /\ [](RefReturned =>
          /\ Len(po.response) = po.q_count
          /\ connection.received = po.q_count)
  /\ [](po.pc = "receive" => Len(po.data) <= po.q_count)
  /\ [](po.op = "error" <=>
          (po.pc = "done" /\ connection.inbox = <<>> /\ connection.received < po.q_count))
  /\ [][po'.data \o po'.sockets[1].inbox = po.data \o po.sockets[1].inbox]_vars

\* Three bytes have been returned in more than one piece, a fourth one is
\* left unread.
C25_Witness ==
  /\ RefReturned
  /\ po.q_count = 3
  /\ Len(connection.inbox) = 1

\* Two of three bytes have been read, the third has arrived.
C25_WitnessPieces ==
  /\ po.pc = "receive"
  /\ po.q_count = 3
  /\ Len(po.data) = 2
  /\ Len(connection.inbox) = 2

\* The server hung up after two of three bytes.
C25_WitnessClosedEarly ==
  /\ po.op = "error"
  /\ po.q_count = 3
  /\ Len(po.data) = 2
  /\ connection.peer = "closed"

-----------------------------------------------------------------------------
(* The sockets at the reply *)

\* C27 as stated: when start_attack has returned, every connection it
\* opened is closed, on the success path and on every error path.
C27_ClosedOnEveryPath ==
  po.pc = "done" => \A n \in 1 .. Len(po.sockets) : ~po.sockets[n].open

\* C27: the connections of the blocks that were recovered are closed when
\* start_attack returns; the connection of a block whose attack failed
\* (send failure, short read, no candidate, failed verification) has not
\* been closed by start_attack.
C27_ClosedOnSuccessOnly ==
  /\ po.op = "plaintext" => \A n \in 1 .. Len(po.sockets) : ~po.sockets[n].open
  /\ po.pc \in {"for", "done"} =>
       \A n \in 1 .. Len(po.sockets) :
         po.sockets[n].open <=> (po.op = "error" /\ n = Len(po.sockets))

\* Two connections were opened and are closed at the reply.
C27_Witness ==
  /\ po.op = "plaintext"
  /\ Len(po.sockets) = 2

\* The reply is an error after a failed verification, and the socket is
\* open.
C27_WitnessVerification ==
  /\ po.op = "error"
  /\ po.error = "verification"
  /\ connection.open

\* No candidate, a short read, a send failure: the socket is open.
C27_WitnessCandidate == po.error = "candidate" /\ connection.open

C27_WitnessReceive == po.error = "receive" /\ connection.open /\ connection.peer = "closed"

C27_WitnessSend == po.error = "send" /\ connection.open /\ connection.peer = "closed"

=============================================================================
